---- MODULE Spec2Model ----
(***************************************************************************)
(* The Bookmark tree of bmconverter.py: the node fields, the preorder      *)
(* iterator next() with its per-start-node "seen" stamps, and the          *)
(* structural operations newchild, set_child, _obliterate_child, delete,   *)
(* flush, __iadd__, __add__, copy and __len__.                             *)
(*                                                                         *)
(* A Bookmark object is a number in 1..MaxNodes; id(node) is that number   *)
(* (objects that are alive never share an id).  The node fields are        *)
(* functions from nodes to values.  Python lists are sequences; a Python   *)
(* index i (0-based, negative from the end) is converted by PyIndex.       *)
(* A missing key of the _seen dictionary reads as 0, which is what every   *)
(* read of it (setdefault(key, 0)) returns.                                *)
(*                                                                         *)
(* A Python value is a record of its type and its content; a string is the *)
(* sequence of its characters.  The thirteen bookmark attributes of a node *)
(* are a record of such values, written only through __setattr__.          *)
(***************************************************************************)
EXTENDS Integers, Sequences, FiniteSets, TLC

\* Bounds of the model.
MaxNodes == 4          \* Bookmark objects that can be alive at a time
MaxBuild == 3          \* nodes of the forest the caller starts from
MaxOps == 2            \* structural operations a caller makes on the trees
MaxLoops == 2          \* for-loops begun and reset() calls made by a caller
MaxHeap == 6           \* Bookmark objects alive when trees with attributes are
                       \* copied and compared
MaxLevel == 3          \* the highest level a record of a file declares

None == 0
Node == 1..MaxNodes
Dummy == MaxHeap + 1   \* the placeholder child made by newchild() that
                       \* set_child(-1, ...) overwrites at once; it is then
                       \* unreferenced and collected
Obj == 1..(MaxHeap + 1)

VARIABLES
    _parent,        \* _parent        : node |-> node or None
    _children,      \* _children      : node |-> sequence of nodes
    _level,         \* _level         : node |-> integer
    _childnumber,   \* _childnumber   : node |-> integer
    _delete,        \* _delete        : node |-> BOOLEAN
    _seen,          \* _seen          : node |-> (id of start node |-> run number)
    _iteritem,      \* _iteritem      : node |-> node or None
    attr,           \* the bookmark attributes : node |-> (name |-> value)
    warned,        \* how many times the last operation called warn()
    used,          \* how many Bookmark objects have been constructed
    outer,         \* the outer for-loop of the caller
    inner,         \* a for-loop nested in the body of the outer one
    ops,           \* how many structural operations, or loops and resets, the caller still makes
    prev,          \* the outer for-loop that ran to exhaustion just before
    reader,        \* the local variables of the read_* function that is running
    file,          \* what the write_* function that ran last wrote and warned of
    last           \* the operation that made the last step, and its arguments

vars == <<_parent, _children, _level, _childnumber, _delete, _seen, _iteritem, attr,
          warned, used, ops, outer, inner, prev, reader, file, last>>

----------------------------------------------------------------------------
\* Python values.

PyNone == [t |-> "NoneType", v |-> <<>>]
PyBool(b) == [t |-> "bool", v |-> <<b>>]
PyInt(n) == [t |-> "int", v |-> <<n>>]
PyLong(n) == [t |-> "long", v |-> <<n>>]
PyStr(chars) == [t |-> "str", v |-> chars]
PyUnicode(chars) == [t |-> "unicode", v |-> chars]

\* The characters are one-character strings; this one stands for a
\* character outside ASCII (u'\xe9', or the byte '\xe9' in a str).
EAcute == "\\xe9"

\* Two control characters: escape (u'\x1b', code 27) and delete (u'\x7f',
\* code 127).
Esc == "\\x1b"
Del == "\\x7f"

IsAscii(chars) == \A i \in 1..Len(chars) : chars[i] # EAcute

IsNumber(x) == x.t \in {"bool", "int", "long"}
IsString(x) == x.t \in {"str", "unicode"}

\* The number a bool, int or long stands for (True is 1, False is 0).
Num(x) == IF x.t = "bool" THEN (IF x.v[1] THEN 1 ELSE 0) ELSE x.v[1]

\* x == y of Python 2 on these values.
PyEq(x, y) ==
    IF IsNumber(x) /\ IsNumber(y) THEN Num(x) = Num(y)
    ELSE IF IsString(x) /\ IsString(y)
         THEN x.v = y.v /\ (x.t = y.t \/ (IsAscii(x.v) /\ IsAscii(y.v)))
         ELSE x.t = "NoneType" /\ y.t = "NoneType"

\* x + y of Python 2 on numbers: a long operand makes the sum a long.
PyAdd(x, y) ==
    IF x.t = "long" \/ y.t = "long" THEN PyLong(Num(x) + Num(y))
    ELSE PyInt(Num(x) + Num(y))

\* The decimal digits of a number.
RECURSIVE Digits(_)
Digits(n) ==
    IF n < 0 THEN <<"-">> \o Digits(0 - n)
    ELSE LET d == <<"0", "1", "2", "3", "4", "5", "6", "7", "8", "9">>[(n % 10) + 1]
         IN IF n < 10 THEN <<d>> ELSE Append(Digits(n \div 10), d)

\* unicode(value): the converted value, or raised when a str holds a byte
\* outside ASCII (UnicodeDecodeError).
ToUnicode(x) ==
    IF x.t = "unicode" THEN [raised |-> FALSE, value |-> x]
    ELSE IF x.t = "str"
         THEN [raised |-> ~IsAscii(x.v), value |-> PyUnicode(x.v)]
         ELSE IF x.t = "bool"
              THEN [raised |-> FALSE,
                    value |-> PyUnicode(IF x.v[1] THEN <<"T", "r", "u", "e">>
                                        ELSE <<"F", "a", "l", "s", "e">>)]
              ELSE IF x.t = "NoneType"
                   THEN [raised |-> FALSE, value |-> PyUnicode(<<"N", "o", "n", "e">>)]
                   ELSE [raised |-> FALSE, value |-> PyUnicode(Digits(x.v[1]))]

Whitespace == {" ", "\t", "\n"}

\* value.strip()
RECURSIVE strip(_)
strip(chars) ==
    IF chars = <<>> THEN chars
    ELSE IF chars[1] \in Whitespace THEN strip(Tail(chars))
    ELSE IF chars[Len(chars)] \in Whitespace
         THEN strip(SubSeq(chars, 1, Len(chars) - 1))
         ELSE chars

----------------------------------------------------------------------------
\* Regular expressions, as far as colorpattern and destpattern use them.
\* A pattern is <<"lit", c>>, <<"set", S>>, <<"not", S>> for [^...],
\* <<"dot">>, <<"end">> for $, <<"seq", <<p, ...>>>>,
\* <<"alt", <<p, ...>>>>, <<"opt", p>>, <<"star", p>> or <<"plus", p>>.
\* Ends(p, s, i) is the set of positions at which a match of p that begins
\* at position i of s can end.

Lit(c) == <<"lit", c>>
Word(chars) == <<"seq", [i \in 1..Len(chars) |-> Lit(chars[i])]>>

RECURSIVE Ends(_, _, _)
Ends(p, s, i) ==
    LET RECURSIVE seq(_, _)
        seq(k, I) == IF k > Len(p[2]) THEN I
                     ELSE seq(k + 1, UNION {Ends(p[2][k], s, j) : j \in I})
        RECURSIVE closure(_)
        closure(I) == LET J == I \cup UNION {Ends(p[2], s, j) : j \in I}
                      IN IF J = I THEN I ELSE closure(J)
    IN CASE p[1] = "lit" -> IF i <= Len(s) /\ s[i] = p[2] THEN {i + 1} ELSE {}
         [] p[1] = "set" -> IF i <= Len(s) /\ s[i] \in p[2] THEN {i + 1} ELSE {}
         [] p[1] = "not" -> IF i <= Len(s) /\ s[i] \notin p[2] THEN {i + 1} ELSE {}
         [] p[1] = "dot" -> IF i <= Len(s) /\ s[i] # "\n" THEN {i + 1} ELSE {}
         [] p[1] = "end" -> IF i = Len(s) + 1 \/ (i = Len(s) /\ s[i] = "\n")
                            THEN {i} ELSE {}
         [] p[1] = "seq" -> seq(1, {i})
         [] p[1] = "alt" -> UNION {Ends(p[2][k], s, i) : k \in 1..Len(p[2])}
         [] p[1] = "opt" -> {i} \cup Ends(p[2], s, i)
         [] p[1] = "star" -> closure({i})
         [] p[1] = "plus" -> closure(Ends(p[2], s, i))

\* pattern.match(string): a match that begins at the first character.
match(p, s) == Ends(p, s, 1) # {}

Digit == <<"set", {"0", "1", "2", "3", "4", "5", "6", "7", "8", "9"}>>
Spaces == <<"star", Lit(" ")>>

\* [0-9]?.?[0-9]+
ColorNumber == <<"seq", <<<<"opt", Digit>>, <<"opt", <<"dot">>>>, <<"plus", Digit>>>>>>

\* null | [+-]?[0-9]?.?[0-9]+
DestNumber ==
    <<"alt", <<Word(<<"n", "u", "l", "l">>),
               <<"seq", <<<<"opt", <<"set", {"+", "-"}>>>>, <<"opt", Digit>>,
                          <<"opt", <<"dot">>>>, <<"plus", Digit>>>>>>>>>>

\* /?name followed by n numbers, each after [ ]*
DestForm(name, n) ==
    <<"seq", <<<<"opt", Lit("/")>>, Word(name)>>
               \o [k \in 1..(2 * n) |-> IF k % 2 = 1 THEN Spaces ELSE DestNumber]>>

colorpattern ==
    <<"seq", <<ColorNumber, <<"plus", Lit(" ")>>, ColorNumber,
               <<"plus", Lit(" ")>>, ColorNumber>>>>

destpattern ==
    <<"alt", <<DestForm(<<"X", "Y", "Z">>, 3),
               DestForm(<<"F", "i", "t">>, 0),
               DestForm(<<"F", "i", "t", "H">>, 1),
               DestForm(<<"F", "i", "t", "V">>, 1),
               DestForm(<<"F", "i", "t", "R">>, 4),
               DestForm(<<"F", "i", "t", "B">>, 0),
               DestForm(<<"F", "i", "t", "B", "H">>, 1),
               DestForm(<<"F", "i", "t", "B", "V">>, 1)>>>>

----------------------------------------------------------------------------
\* The heap as one value: the operations below map heaps to heaps.  exc is
\* set when an operation is left by an uncaught exception; warned counts
\* the calls of warn() the operation made.
Cur ==
    [_parent |-> _parent, _children |-> _children, _level |-> _level,
     _childnumber |-> _childnumber, _delete |-> _delete, _seen |-> _seen,
     _iteritem |-> _iteritem, attr |-> attr, warned |-> 0, used |-> used,
     exc |-> FALSE]

AttrNames ==
    <<"action", "title", "page", "destination", "named", "namedn", "file",
      "newwindow", "uri", "italic", "bold", "color", "open">>

\* The attribute values that __init__ assigns.
InitAttrs ==
    [action |-> PyNone, title |-> PyUnicode(<<>>), page |-> PyInt(0),
     destination |-> PyNone, named |-> PyNone, namedn |-> PyNone,
     file |-> PyNone, newwindow |-> PyNone, uri |-> PyNone,
     italic |-> PyBool(FALSE), bold |-> PyBool(FALSE), color |-> PyNone,
     open |-> PyBool(TRUE)]

\* warn(msg) writes str(msg).  For a unicode message with a character
\* outside ASCII str() raises UnicodeEncodeError and nothing is written.
warn(st, ascii) ==
    IF ascii THEN [st EXCEPT !.warned = st.warned + 1] ELSE [st EXCEPT !.exc = TRUE]

\* value in [None, 'GoTo', 'GoToR', 'URI', 'Launch']
IsAction(value) ==
    \E a \in {PyNone, PyStr(<<"G", "o", "T", "o">>), PyStr(<<"G", "o", "T", "o", "R">>),
              PyStr(<<"U", "R", "I">>), PyStr(<<"L", "a", "u", "n", "c", "h">>)} :
        PyEq(value, a)

\* __setattr__ that assigns whatever it is given.
__setattr__unchecked(st, self, name, value) ==
    [st EXCEPT !.attr[self][name] = value]

\* Bookmark.__setattr__ for the thirteen bookmark attributes.
__setattr__(st, self, name, value) ==
    LET badpage == name = "page"
                     /\ (value.t \notin {"int", "bool"} \/ Num(value) < 0)
        st1 == IF badpage THEN warn(st, TRUE) ELSE st
        v1 == IF badpage THEN PyInt(0) ELSE value
        notbool == /\ name \in {"italic", "bold", "open", "newwindow"}
                   /\ v1.t # "bool"
                   /\ ~(name = "newwindow" /\ v1.t = "NoneType")
        convert == /\ name \in {"title", "file", "uri", "destination", "color", "action"}
                   /\ v1.t # "NoneType"
                   /\ v1.t # "unicode"
        st2 == IF convert /\ name \in {"title", "file", "uri"}
               THEN warn(st1, TRUE) ELSE st1
        u == ToUnicode(v1)
        v2 == IF convert THEN u.value ELSE v1
        stripped == [v2 EXCEPT !.v = strip(v2.v)]
    IN IF notbool THEN warn(st1, TRUE)
       ELSE IF convert /\ u.raised THEN warn(st2, TRUE)
       ELSE IF name = "action" /\ ~IsAction(v2) THEN warn(st2, IsAscii(v2.v))
       ELSE IF name = "destination" /\ v2.t # "NoneType"
            THEN IF ~match(destpattern, stripped.v)
                 THEN LET w == warn(st2, IsAscii(stripped.v))
                      IN IF w.exc THEN w ELSE warn(warn(w, TRUE), TRUE)
                 ELSE [st2 EXCEPT !.attr[self][name] = stripped]
       ELSE IF name = "color" /\ v2.t # "NoneType"
            THEN IF ~match(colorpattern, stripped.v)
                 THEN LET w == warn(st2, IsAscii(stripped.v))
                      IN IF w.exc THEN w ELSE warn(warn(w, TRUE), TRUE)
                 ELSE [st2 EXCEPT !.attr[self][name] = stripped]
       ELSE [st2 EXCEPT !.attr[self][name] = v2]

\* Bookmark.__init__ on every object that is not yet constructed.
Fresh ==
    [_parent |-> [n \in Obj |-> None],
     _children |-> [n \in Obj |-> <<>>],
     _level |-> [n \in Obj |-> 0],
     _childnumber |-> [n \in Obj |-> 0],
     _delete |-> [n \in Obj |-> FALSE],
     _seen |-> [n \in Obj |-> [s \in Obj |-> 0]],
     _iteritem |-> [n \in Obj |-> None],
     attr |-> [n \in Obj |-> InitAttrs],
     warned |-> 0,
     used |-> 0,
     exc |-> FALSE]

\* Bookmark(): the next unused object; its fields are those of __init__.
Bookmark(st) == [st EXCEPT !.used = st.used + 1]

\* A placeholder object that nothing references any more is collected: the
\* object identity is free again, with the fields __init__ will give it.
Collect(st, n) ==
    [st EXCEPT !._parent[n] = None, !._children[n] = <<>>, !._level[n] = 0,
               !._childnumber[n] = 0, !._delete[n] = FALSE,
               !._seen[n] = [s \in Obj |-> 0], !._iteritem[n] = None,
               !.attr[n] = InitAttrs]

\* Python list indexing: the 1-based position of index i in a list of
\* length len, or 0 when the index raises IndexError.
PyIndex(len, i) ==
    IF i >= 0 THEN (IF i < len THEN i + 1 ELSE 0)
    ELSE (IF len + i >= 0 THEN len + i + 1 ELSE 0)

\* Python slicing list[i:]: the 1-based position the slice starts at.
PySliceFrom(len, i) ==
    IF i >= 0 THEN (IF i < len THEN i + 1 ELSE len + 1)
    ELSE (IF len + i >= 0 THEN len + i + 1 ELSE 1)

is_root(st, n) == st._parent[n] = None
has_children(st, n) == Len(st._children[n]) > 0

\* reset that leaves the cursor where it is.
reset_keeps_cursor(st, self) == st

\* Bookmark.reset
reset(st, self) == [st EXCEPT !._iteritem[self] = None]

seen_in_run(st, node, startnode) ==
    st._seen[node][startnode] >= st._seen[startnode][startnode]

\* make_seen with one stamp for all start nodes instead of one per start node.
make_seen_all(st, node, startnode) ==
    [st EXCEPT !._seen[node] = [k \in Obj |-> st._seen[k][k]]]

\* make_seen that leaves the stamp of the node as it is.
make_seen_never(st, node, startnode) == st

make_seen(st, node, startnode) ==
    [st EXCEPT !._seen[node][startnode] = st._seen[startnode][startnode]]

\* The loop over the children taking the last unseen child instead of the first.
FirstUnseenLast(st, p, self) ==
    LET cs == st._children[p]
        k == CHOOSE i \in 1..Len(cs) :
                /\ ~seen_in_run(st, cs[i], self)
                /\ \A j \in (i + 1)..Len(cs) : seen_in_run(st, cs[j], self)
    IN cs[k]

\* "for child in children: if not seen_in_run(child, self)": the first such child.
FirstUnseen(st, p, self) ==
    LET cs == st._children[p]
        k == CHOOSE i \in 1..Len(cs) :
                /\ ~seen_in_run(st, cs[i], self)
                /\ \A j \in 1..(i - 1) : seen_in_run(st, cs[j], self)
    IN cs[k]

\* The while loop of next(): climb from the cursor until a parent with an
\* unseen last child is found, or the root is reached.
RECURSIVE FindUnseen(_, _)
FindUnseen(st, self) ==
    LET cur == st._iteritem[self] IN
    IF is_root(st, cur)
    THEN [st |-> reset(st, self), node |-> None]
    ELSE LET p == st._parent[cur]
             st1 == [st EXCEPT !._iteritem[self] = p]
             cs == st._children[p]
         IN IF Len(cs) = 0
            THEN [st |-> [st1 EXCEPT !.exc = TRUE], node |-> None]
            ELSE IF ~seen_in_run(st1, cs[Len(cs)], self)
                 THEN LET c == FirstUnseen(st1, p, self)
                      IN [st |-> make_seen([st1 EXCEPT !._iteritem[self] = c], c, self),
                          node |-> c]
                 ELSE FindUnseen(st1, self)

\* Bookmark.next(): the node yielded, or None for StopIteration.
next(st, self) ==
    LET st1 == IF st._iteritem[self] = None
               THEN [st EXCEPT !._seen[self][self] = st._seen[self][self] + 1,
                               !._iteritem[self] = self]
               ELSE st
        st2 == IF has_children(st1, st1._iteritem[self])
               THEN [st1 EXCEPT !._iteritem[self] = st1._children[st1._iteritem[self]][1]]
               ELSE st1
    IN FindUnseen(st2, self)

\* Bookmark.__len__
RECURSIVE len(_, _)
len(st, self) ==
    LET cs == st._children[self]
        RECURSIVE sum(_)
        sum(i) == IF i > Len(cs) THEN 0 ELSE len(st, cs[i]) + sum(i + 1)
    IN Len(cs) + sum(1)

\* The loop of shift_pagenumber: node.page += offset for every node the
\* iteration from self yields.
RECURSIVE ShiftLoop(_, _, _)
ShiftLoop(st, self, offset) ==
    LET r == next(st, self) IN
    IF r.st.exc \/ r.node = None
    THEN r.st
    ELSE LET page == r.st.attr[r.node].page
             st1 == IF page.t \in {"int", "bool"}
                    THEN __setattr__(r.st, r.node, "page", PyAdd(page, offset))
                    ELSE r.st
         IN IF st1.exc THEN st1 ELSE ShiftLoop(st1, self, offset)

\* Bookmark.shift_pagenumber
shift_pagenumber(st, self, offset) ==
    LET st1 == ShiftLoop(reset(st, self), self, offset)
    IN IF st1.exc THEN st1 ELSE reset(st1, self)

\* Bookmark.has_same_attrs_as
has_same_attrs_as(st, self, other) ==
    \A k \in 1..Len(AttrNames) :
        PyEq(st.attr[self][AttrNames[k]], st.attr[other][AttrNames[k]])

\* zip(a, b) is as long as the shorter list.
Min(a, b) == IF a <= b THEN a ELSE b

\* Bookmark.__eq__
__eq__(st, self, other) ==
    /\ len(st, self) = len(st, other)
    /\ has_same_attrs_as(st, self, other)
    /\ \A i \in 1..Min(Len(st._children[self]), Len(st._children[other])) :
           has_same_attrs_as(st, st._children[self][i], st._children[other][i])

\* __lt__ that also holds for trees of the same size.
__lt__or_same(st, self, other) == len(st, self) <= len(st, other)

\* Bookmark.__lt__
__lt__(st, self, other) == len(st, self) < len(st, other)

\* Bookmark.__gt__
__gt__(st, self, other) == len(st, self) > len(st, other)

\* Bookmark.newchild, the new Bookmark() being object child.
newchild(st, self, child) ==
    [st EXCEPT !._children[self] = Append(st._children[self], child),
               !._level[child] = st._level[self] + 1,
               !._parent[child] = self,
               !._childnumber[child] = Len(st._children[self])]

\* The loop "for child in node: child._level = ..." of set_child.  The
\* iteration runs from node while node._parent is still its previous parent.
RECURSIVE RelevelLoop(_, _, _, _)
RelevelLoop(st, self, node, oldlevel) ==
    LET r == next(st, node) IN
    IF r.st.exc \/ r.node = None
    THEN r.st
    ELSE RelevelLoop(
             [r.st EXCEPT !._level[r.node] =
                  r.st._level[self] + (r.st._level[r.node] - oldlevel) + 1],
             self, node, oldlevel)

\* set_child that forgets "node._parent = self".
set_child_keeps_parent(st, self, i, node) ==
    LET k == PyIndex(Len(st._children[self]), i) IN
    IF k = 0
    THEN [st EXCEPT !.exc = TRUE]
    ELSE LET st1 == [st EXCEPT !._children[self][k] = node]
             oldlevel == st1._level[node]
             st2 == [st1 EXCEPT !._level[node] = st1._level[self] + 1]
             st3 == RelevelLoop(st2, self, node, oldlevel)
         IN IF st3.exc THEN st3 ELSE [st3 EXCEPT !._childnumber[node] = i]

\* Bookmark.set_child
set_child(st, self, i, node) ==
    LET k == PyIndex(Len(st._children[self]), i) IN
    IF k = 0
    THEN [st EXCEPT !.exc = TRUE]
    ELSE LET st1 == [st EXCEPT !._children[self][k] = node]
             oldlevel == st1._level[node]
             st2 == [st1 EXCEPT !._level[node] = st1._level[self] + 1]
             st3 == RelevelLoop(st2, self, node, oldlevel)
         IN IF st3.exc
            THEN st3
            ELSE [st3 EXCEPT !._parent[node] = self, !._childnumber[node] = i]

\* Bookmark._obliterate_child.  The IndexError of child(childnumber) is
\* caught after the loop over the slice has already renumbered.
_obliterate_child(st, self, cn) ==
    LET cs == st._children[self]
        from == PySliceFrom(Len(cs), cn)
        k == PyIndex(Len(cs), cn)
        st1 == [st EXCEPT !._childnumber =
                   [n \in Obj |-> st._childnumber[n]
                        - Cardinality({j \in from..Len(cs) : cs[j] = n})]]
    IN IF k = 0
       THEN st1
       ELSE [st1 EXCEPT !._parent[cs[k]] = None,
                        !._children[self] =
                            SubSeq(cs, 1, k - 1) \o SubSeq(cs, k + 1, Len(cs))]

\* Bookmark._obliterate
_obliterate(st, self) ==
    IF ~is_root(st, self)
    THEN _obliterate_child(st, st._parent[self], st._childnumber[self])
    ELSE st

\* delete that detaches the node at once.
delete_and_detach(st, self) == _obliterate([st EXCEPT !._delete[self] = TRUE], self)

\* Bookmark.delete
delete(st, self) == [st EXCEPT !._delete[self] = TRUE]

\* The first loop of flush: the flagged nodes the iteration from self yields.
RECURSIVE CollectFlagged(_, _, _)
CollectFlagged(st, self, dellist) ==
    LET r == next(st, self) IN
    IF r.st.exc \/ r.node = None
    THEN [st |-> r.st, dellist |-> dellist]
    ELSE CollectFlagged(r.st, self,
             IF r.st._delete[r.node] THEN Append(dellist, r.node) ELSE dellist)

\* The second loop of flush.
RECURSIVE ObliterateAll(_, _, _)
ObliterateAll(st, dellist, i) ==
    IF i > Len(dellist) THEN st
    ELSE ObliterateAll(_obliterate(st, dellist[i]), dellist, i + 1)

\* Bookmark.flush
flush(st, self) ==
    LET c == CollectFlagged(reset(st, self), self, <<>>) IN
    IF c.st.exc THEN c.st
    ELSE ObliterateAll(reset(c.st, self), c.dellist, 1)

\* Bookmark.__iadd__ for other # self: the loop runs over other's child
\* list, which the loop body does not change.
RECURSIVE IaddLoop(_, _, _, _)
IaddLoop(st, self, cs, i) ==
    IF i > Len(cs) \/ st.exc THEN st
    ELSE IaddLoop(
             Collect(set_child(newchild(st, self, Dummy), self, -1, cs[i]), Dummy),
             self, cs, i + 1)

__iadd__(st, self, other) == IaddLoop(st, self, st._children[other], 1)

\* copy that leaves the attributes of the new nodes as __init__ made them.
CopyAttrsNone(st, newnode, self, k) == st

\* The thirteen assignments "newnode.x = self.x" of copy.
RECURSIVE CopyAttrs(_, _, _, _)
CopyAttrs(st, newnode, self, k) ==
    IF k > Len(AttrNames) \/ st.exc THEN st
    ELSE CopyAttrs(__setattr__(st, newnode, AttrNames[k], st.attr[self][AttrNames[k]]),
                   newnode, self, k + 1)

\* Bookmark.copy.  The copy of a child is made before the placeholder it
\* replaces, so that one placeholder identity serves every depth of the
\* recursion.
RECURSIVE copy(_, _)
copy(st, self) ==
    LET st0 == CopyAttrs(Bookmark(st), st.used + 1, self, 1)
        newnode == st.used + 1
        cs == st._children[self]
        RECURSIVE loop(_, _)
        loop(s, i) ==
            IF i > Len(cs) \/ s.exc THEN s
            ELSE LET c == copy(s, cs[i])
                 IN loop(Collect(set_child(newchild(c.st, newnode, Dummy),
                                           newnode, -1, c.node), Dummy),
                         i + 1)
    IN [st |-> loop(st0, 1), node |-> newnode]

\* __add__ that appends to self instead of a copy of self.
__add__in_place(st, self, other) ==
    [st |-> __iadd__(st, self, other), node |-> self]

\* Bookmark.__add__
__add__(st, self, other) ==
    LET c == copy(st, self) IN
    [st |-> __iadd__(c.st, c.node, other), node |-> c.node]

----------------------------------------------------------------------------
\* The caller's side: which objects a caller can hold, and which arguments
\* keep the links free of cycles (a cycle makes __len__ and next() diverge).

Live == 1..used

RECURSIVE Ancestors(_, _)
Ancestors(st, n) ==
    IF st._parent[n] = None THEN {}
    ELSE {st._parent[n]} \cup Ancestors(st, st._parent[n])

Range(seq) == {seq[i] : i \in 1..Len(seq)}

\* n and every node below it along the child lists.
RECURSIVE Subtree(_, _)
Subtree(st, n) ==
    {n} \cup UNION {Subtree(st, c) : c \in Range(st._children[n])}

NoCycle(st, self, node) ==
    /\ node # self
    /\ node \notin Ancestors(st, self)
    /\ self \notin Subtree(st, node)

NoLoop == [start |-> None, status |-> "idle", got |-> <<>>, fresh |-> FALSE,
           shared |-> FALSE, wasreset |-> FALSE, overlap |-> FALSE]
NoPrev == [start |-> None, got |-> <<>>, clean |-> FALSE]
NoReader == [format |-> "none", status |-> "idle", current_node |-> None,
             current_level |-> 0, level |-> 0, title |-> PyStr(<<>>)]

\* No file has been written.
NoFile == [format |-> "none", events |-> <<>>]

Op(op, self, other, i, ret, exc) ==
    [op |-> op, self |-> self, other |-> other, i |-> i, ret |-> ret, exc |-> exc]

\* The heap after an operation.
HeapNext(st, cap) ==
    /\ st.used <= cap
    /\ _parent' = st._parent
    /\ _children' = st._children
    /\ _level' = st._level
    /\ _childnumber' = st._childnumber
    /\ _delete' = st._delete
    /\ _seen' = st._seen
    /\ _iteritem' = st._iteritem
    /\ attr' = st.attr
    /\ warned' = st.warned
    /\ used' = st.used

\* The heap after an operation of a caller that is not a reader, and the
\* record of the operation.
CommitWithin(st, l, cap) ==
    /\ HeapNext(st, cap)
    /\ last' = l
    /\ reader' = reader
    /\ file' = file

Commit(st, l) == CommitWithin(st, l, MaxNodes)

\* The forests of at most k nodes that Bookmark() and newchild() build, as
\* the readers build them: node 1 is a root, every later node is a new root
\* or the new last child of an earlier node.
RECURSIVE Built(_)
Built(k) ==
    IF k <= 1 THEN {Bookmark(Fresh)}
    ELSE LET S == Built(k - 1)
             T == {s \in S : s.used = k - 1}
         IN S \cup {Bookmark(s) : s \in T}
              \cup {newchild(Bookmark(s), p, k) : s \in T, p \in 1..(k - 1)}

InitHeap(st) ==
    /\ _parent = st._parent
    /\ _children = st._children
    /\ _level = st._level
    /\ _childnumber = st._childnumber
    /\ _delete = st._delete
    /\ _seen = st._seen
    /\ _iteritem = st._iteritem
    /\ attr = st.attr
    /\ warned = 0
    /\ used = st.used
    /\ reader = NoReader
    /\ file = NoFile

Init ==
    /\ \E st \in Built(MaxBuild) : InitHeap(st)
    /\ ops = MaxOps
    /\ outer = NoLoop
    /\ inner = NoLoop
    /\ prev = NoPrev
    /\ last = Op("init", None, None, 0, None, FALSE)

\* root = Bookmark()
NewBookmark ==
    /\ ops > 0
    /\ used < MaxNodes
    /\ Commit(Bookmark(Cur), Op("Bookmark", used + 1, None, 0, used + 1, FALSE))
    /\ ops' = ops - 1
    /\ UNCHANGED <<outer, inner, prev>>

\* self.newchild()
Newchild(self) ==
    /\ ops > 0
    /\ used < MaxNodes
    /\ Commit(newchild(Bookmark(Cur), self, used + 1),
              Op("newchild", self, None, 0, used + 1, FALSE))
    /\ ops' = ops - 1
    /\ UNCHANGED <<outer, inner, prev>>

\* self.set_child(i, node)
SetChild(self, i, node) ==
    /\ ops > 0
    /\ NoCycle(Cur, self, node)
    /\ LET st == set_child(Cur, self, i, node)
       IN Commit([st EXCEPT !.exc = FALSE], Op("set_child", self, node, i, None, st.exc))
    /\ ops' = ops - 1
    /\ UNCHANGED <<outer, inner, prev>>

\* self.copy()
Copy(self) ==
    /\ ops > 0
    /\ used + 1 + len(Cur, self) <= MaxNodes
    /\ LET c == copy(Cur, self)
       IN Commit([c.st EXCEPT !.exc = FALSE], Op("copy", self, None, 0, c.node, c.st.exc))
    /\ ops' = ops - 1
    /\ UNCHANGED <<outer, inner, prev>>

\* self + other
Add(self, other) ==
    /\ ops > 0
    /\ used + 1 + len(Cur, self) <= MaxNodes
    /\ LET c == __add__(Cur, self, other)
       IN Commit([c.st EXCEPT !.exc = FALSE], Op("add", self, other, 0, c.node, c.st.exc))
    /\ ops' = ops - 1
    /\ UNCHANGED <<outer, inner, prev>>

\* self += other
IAdd(self, other) ==
    /\ ops > 0
    /\ other # self
    /\ self \notin Subtree(Cur, other)
    /\ \A c \in Range(_children[other]) : c \notin Ancestors(Cur, self)
    /\ LET st == __iadd__(Cur, self, other)
       IN Commit([st EXCEPT !.exc = FALSE], Op("iadd", self, other, 0, self, st.exc))
    /\ ops' = ops - 1
    /\ UNCHANGED <<outer, inner, prev>>

\* self.delete()
Delete(self) ==
    /\ ops > 0
    /\ Commit(delete(Cur, self), Op("delete", self, None, 0, None, FALSE))
    /\ ops' = ops - 1
    /\ UNCHANGED <<outer, inner, prev>>

\* self.flush()
Flush(self) ==
    /\ ops > 0
    /\ LET st == flush(Cur, self)
       IN Commit([st EXCEPT !.exc = FALSE], Op("flush", self, None, 0, None, st.exc))
    /\ ops' = ops - 1
    /\ UNCHANGED <<outer, inner, prev>>

Next ==
    \/ NewBookmark
    \/ \E self \in Live : Newchild(self)
    \/ \E self \in Live, node \in Live :
          \E i \in ({0 - 1} \cup (0..(Len(_children[self]) - 1))) : SetChild(self, i, node)
    \/ \E self \in Live : Copy(self)
    \/ \E self \in Live, other \in Live : Add(self, other)
    \/ \E self \in Live, other \in Live : IAdd(self, other)
    \/ \E self \in Live : Delete(self)
    \/ \E self \in Live : Flush(self)

Spec == Init /\ [][Next]_vars

\* The same operations, one more of them, from the forests that fill the heap.
InitDeep ==
    /\ \E st \in Built(MaxNodes) : InitHeap(st)
    /\ ops = MaxOps + 1
    /\ outer = NoLoop
    /\ inner = NoLoop
    /\ prev = NoPrev
    /\ last = Op("init", None, None, 0, None, FALSE)

SpecDeep == InitDeep /\ [][Next]_vars

----------------------------------------------------------------------------
\* Structural claims.

\* The heap after the step.
CurNext ==
    [_parent |-> _parent', _children |-> _children', _level |-> _level',
     _childnumber |-> _childnumber', _delete |-> _delete', _seen |-> _seen',
     _iteritem |-> _iteritem', attr |-> attr', warned |-> 0, used |-> used',
     exc |-> FALSE]

\* Every child named in a child list names that node as its parent, and
\* every node that names a parent occurs exactly once in that parent's list.
LinksConsistent(st) ==
    \A n \in 1..st.used :
        /\ \A i \in 1..Len(st._children[n]) : st._parent[st._children[n][i]] = n
        /\ st._parent[n] # None =>
               Cardinality({i \in 1..Len(st._children[st._parent[n]]) :
                               st._children[st._parent[n]][i] = n}) = 1

\* The child lists below r form a tree whose parent links agree with them.
TreeConsistent(st, r) ==
    \A n \in Subtree(st, r) :
        \A i \in 1..Len(st._children[n]) :
            /\ st._parent[st._children[n][i]] = n
            /\ \A j \in 1..Len(st._children[n]) :
                   st._children[n][i] = st._children[n][j] => i = j

\* The nodes below r that are flagged, with everything below them.
Flagged(st, r) ==
    UNION {Subtree(st, f) : f \in {n \in Subtree(st, r) \ {r} : st._delete[n]}}

Without(seq, S) == SelectSeq(seq, LAMBDA x : x \notin S)

\* C3: after flush() on a root, exactly the flagged nodes and their
\* descendants are no longer reachable from the root, every other node is
\* still reachable and keeps its parent and its order among its siblings,
\* and len(root) has decreased by the number of removed nodes.
C3_FlushRemovesExactlyFlagged ==
    [][(last'.op = "flush" /\ is_root(Cur, last'.self)
            /\ TreeConsistent(Cur, last'.self))
        => LET r == last'.self
               gone == Flagged(Cur, r)
           IN /\ Subtree(CurNext, r) = Subtree(Cur, r) \ gone
              /\ \A n \in Subtree(Cur, r) \ gone :
                    /\ _parent'[n] = _parent[n]
                    /\ _children'[n] = Without(_children[n], gone)
              /\ len(CurNext, r) = len(Cur, r) - Cardinality(gone)]_vars

\* C7: after B += C, len(B) has grown by the len(C) of before, C's former
\* top-level children are the last children of B in their order, and each
\* of them names B as its parent.  B and C are nodes of a heap whose links
\* are consistent.
C7_MergeAppends ==
    [][(last'.op = "iadd" /\ LinksConsistent(Cur))
        => LET b == last'.self
               c == last'.other
           IN /\ ~last'.exc
              /\ len(CurNext, b) = len(Cur, b) + len(Cur, c)
              /\ _children'[b] = _children[b] \o _children[c]
              /\ \A x \in Range(_children[c]) : _parent'[x] = b]_vars

\* A merge of a tree with two top-level children has been made.
C7_Witness ==
    /\ last.op = "iadd"
    /\ ~last.exc
    /\ Len(_children[last.other]) >= 2
    /\ \A x \in Range(_children[last.other]) : _parent[x] = last.self
    /\ len(Cur, last.self) >= 2

\* C8: after B += C, C has no children left: C.children() is empty and
\* len(C) is 0.
C8_MergeEmptiesOther ==
    (last.op = "iadd" /\ ~last.exc)
        => /\ _children[last.other] = <<>>
           /\ len(Cur, last.other) = 0

\* C9: in every reachable state, for every node N and every X in
\* N.children(), X.parent() is N, and every node whose parent is N occurs
\* exactly once in N.children().
C9_LinksConsistent == LinksConsistent(Cur)

\* C10: in every reachable state, a node that has a parent is one level
\* below it, and a node without a parent has level 0.
C10_LevelsConsistent ==
    \A n \in Live :
        IF _parent[n] = None THEN _level[n] = 0
        ELSE _level[n] = _level[_parent[n]] + 1

----------------------------------------------------------------------------
\* The caller's for-loops.  "for x in s:" calls s.__iter__(), which returns
\* s, and then s.next() until StopIteration.  A loop may be nested in the
\* body of another; a loop that is left early (break) is abandoned.
\*   fresh    : s._iteritem was None when the loop began
\*   shared   : another loop called next() on the same start node meanwhile
\*   wasreset : reset() was called on the start node meanwhile
\*   overlap  : a loop on another start node was in progress meanwhile

LoopBegin(s, over) ==
    [start |-> s, status |-> "running", got |-> <<>>,
     fresh |-> (_iteritem[s] = None), shared |-> FALSE, wasreset |-> FALSE,
     overlap |-> over]

\* One call of start.next() made for loop l.
LoopStep(l, r) ==
    IF r.st.exc THEN [l EXCEPT !.status = "raised"]
    ELSE IF r.node = None THEN [l EXCEPT !.status = "done"]
    ELSE [l EXCEPT !.got = Append(l.got, r.node)]

\* for x in s:   (at top level; a loop still running there is abandoned)
BeginOuter(s) ==
    /\ ops > 0
    /\ ops' = ops - 1
    /\ inner.status # "running"
    /\ outer' = LoopBegin(s, FALSE)
    /\ inner' = NoLoop
    /\ prev' = IF outer.status = "done"
               THEN [start |-> outer.start, got |-> outer.got,
                     clean |-> outer.fresh /\ ~outer.shared /\ ~outer.wasreset]
               ELSE NoPrev
    /\ last' = Op("iter", s, None, 0, s, FALSE)
    /\ UNCHANGED <<_parent, _children, _level, _childnumber, _delete, _seen,
                   _iteritem, attr, warned, used, reader, file>>

\* the outer loop's next()
StepOuter ==
    /\ outer.status = "running"
    /\ inner.status # "running"
    /\ LET r == next(Cur, outer.start)
       IN /\ Commit([r.st EXCEPT !.exc = FALSE],
                    Op("next", outer.start, None, 0, r.node, r.st.exc))
          /\ outer' = LoopStep(outer, r)
    /\ UNCHANGED <<inner, prev, ops>>

\* for y in s:   (in the body of the outer loop)
BeginInner(s) ==
    /\ ops > 0
    /\ ops' = ops - 1
    /\ outer.status = "running"
    /\ Len(outer.got) >= 1
    /\ inner.status # "running"
    /\ inner' = LoopBegin(s, s # outer.start)
    /\ last' = Op("iter", s, None, 0, s, FALSE)
    /\ UNCHANGED <<_parent, _children, _level, _childnumber, _delete, _seen,
                   _iteritem, attr, warned, used, outer, prev,
                   reader, file>>

\* the inner loop's next()
StepInner ==
    /\ inner.status = "running"
    /\ LET r == next(Cur, inner.start)
       IN /\ Commit([r.st EXCEPT !.exc = FALSE],
                    Op("next", inner.start, None, 0, r.node, r.st.exc))
          /\ inner' = LoopStep(inner, r)
    /\ outer' = [outer EXCEPT
                    !.shared = outer.shared \/ inner.start = outer.start,
                    !.overlap = outer.overlap \/ inner.start # outer.start]
    /\ UNCHANGED <<prev, ops>>

\* break in the inner loop
BreakInner ==
    /\ inner.status = "running"
    /\ Len(inner.got) >= 1
    /\ inner' = [inner EXCEPT !.status = "left"]
    /\ last' = Op("break", inner.start, None, 0, None, FALSE)
    /\ UNCHANGED <<_parent, _children, _level, _childnumber, _delete, _seen,
                   _iteritem, attr, warned, used, ops, outer, prev,
                   reader, file>>

\* s.reset()
Reset(s) ==
    /\ ops > 0
    /\ ops' = ops - 1
    /\ _iteritem[s] # None
    /\ Commit(reset(Cur, s), Op("reset", s, None, 0, None, FALSE))
    /\ outer' = IF outer.status = "running" /\ outer.start = s
                THEN [outer EXCEPT !.wasreset = TRUE] ELSE outer
    /\ inner' = IF inner.status = "running" /\ inner.start = s
                THEN [inner EXCEPT !.wasreset = TRUE] ELSE inner
    /\ UNCHANGED prev

IterInit ==
    /\ \E st \in Built(MaxNodes) : InitHeap(st)
    /\ ops = MaxLoops
    /\ outer = NoLoop
    /\ inner = NoLoop
    /\ prev = NoPrev
    /\ last = Op("init", None, None, 0, None, FALSE)

NextIter ==
    \/ \E s \in Live : BeginOuter(s)
    \/ StepOuter
    \/ \E s \in Live : BeginInner(s)
    \/ StepInner
    \/ BreakInner
    \/ \E s \in Live : Reset(s)

SpecIter == IterInit /\ [][NextIter]_vars

(***************************************************************************)
(* Claims about iteration.                                                 *)
(***************************************************************************)

\* The nodes below n in preorder: each child, then what is below it, then
\* the next child.
RECURSIVE Preorder(_, _)
Preorder(st, n) ==
    LET cs == st._children[n]
        RECURSIVE from(_)
        from(i) == IF i > Len(cs) THEN <<>>
                   ELSE <<cs[i]>> \o Preorder(st, cs[i]) \o from(i + 1)
    IN from(1)

IsPrefix(a, b) == Len(a) <= Len(b) /\ a = SubSeq(b, 1, Len(a))

NoRepeat(seq) == \A i, j \in 1..Len(seq) : seq[i] = seq[j] => i = j

\* The heap with the same trees and no iteration ever made on them.
Pristine(st) ==
    [st EXCEPT !._seen = [n \in Obj |-> [k \in Obj |-> 0]],
               !._iteritem = [n \in Obj |-> None]]

\* list(s): the nodes that next() yields until it raises, at most k of them.
RECURSIVE Exhaust(_, _, _)
Exhaust(st, s, k) ==
    LET r == next(st, s)
    IN IF k = 0 \/ r.st.exc \/ r.node = None THEN <<>>
       ELSE <<r.node>> \o Exhaust(r.st, s, k - 1)

\* What a loop over s yields when it is the only iteration ever made.
Alone(s) == Exhaust(Pristine(Cur), s, MaxNodes + 1)

\* A loop that began with the cursor of its start node unset, that shared
\* its start node with no nested loop, and whose start node was not reset.
Clean(l) == l.fresh /\ ~l.shared /\ ~l.wasreset

Loops == {outer, inner}

\* C1: a loop over a tree root, alone on its start node, yields the nodes
\* below the root in preorder (a node before its children, the children in
\* list order, all that is below a node before its next sibling), each
\* once and never the root; when all of them are yielded the next call
\* raises StopIteration, and no call raises anything else.
C1_RootPreorder ==
    \A l \in Loops :
        (l.status \in {"running", "left", "done", "raised"} /\ Clean(l)
             /\ is_root(Cur, l.start)) =>
            /\ l.status # "raised"
            /\ IsPrefix(l.got, Preorder(Cur, l.start))
            /\ l.start \notin Range(l.got)
            /\ l.status = "done" => l.got = Preorder(Cur, l.start)
            /\ (l.status = "running" /\ l.got = Preorder(Cur, l.start)) =>
                   next(Cur, l.start).node = None

\* A loop over a root with a child that has a child and a later sibling
\* has run to exhaustion.
C1_Witness ==
    /\ outer.status = "done"
    /\ Clean(outer)
    /\ is_root(Cur, outer.start)
    /\ Len(outer.got) >= 3
    /\ \E i \in 1..(Len(outer.got) - 2) :
           /\ _parent[outer.got[i]] = outer.start
           /\ _parent[outer.got[i + 1]] = outer.got[i]
           /\ _parent[outer.got[i + 2]] = outer.start

\* C2: a loop over a node that has a parent, alone on its start node,
\* yields the nodes below its start node, each once, and nothing else.
C2_NonRootYieldsDescendants ==
    \A l \in Loops :
        (l.status \in {"running", "left", "done"} /\ Clean(l)
             /\ ~is_root(Cur, l.start)) =>
            /\ Range(l.got) \subseteq Subtree(Cur, l.start) \ {l.start}
            /\ NoRepeat(l.got)
            /\ l.status = "done" =>
                   Range(l.got) = Subtree(Cur, l.start) \ {l.start}

\* C4: a loop that is alone on its start node yields what it yields when
\* no other iteration is made, also when loops over other start nodes
\* make their calls of next() between its calls.
C4_DifferentStartsIndependent ==
    \A l \in Loops :
        (l.status \in {"running", "left", "done", "raised"} /\ Clean(l)) =>
            /\ l.status # "raised"
            /\ IsPrefix(l.got, Alone(l.start))
            /\ l.status = "done" => l.got = Alone(l.start)

\* An outer loop has run to exhaustion, and in its body a loop over
\* another start node yielded a node and ran to exhaustion.
C4_Witness ==
    /\ outer.status = "done"
    /\ Clean(outer)
    /\ outer.overlap
    /\ Len(outer.got) >= 2
    /\ inner.status = "done"
    /\ Clean(inner)
    /\ inner.start # outer.start
    /\ Len(inner.got) >= 1

\* C5: a loop over the start node of the loop it is nested in yields the
\* whole sequence of that start node, and the outer loop then yields what
\* it yields alone.
C5_NestedSameStartIndependent ==
    (/\ outer.status \in {"running", "done"}
     /\ outer.fresh
     /\ ~outer.wasreset
     /\ outer.shared
     /\ inner.start = outer.start
     /\ ~inner.wasreset) =>
        /\ inner.status = "done" => inner.got = Alone(inner.start)
        /\ IsPrefix(outer.got, Alone(outer.start))
        /\ outer.status = "done" => outer.got = Alone(outer.start)

\* C6: two loops over the same start node, one after the other and each
\* run to exhaustion, yield the same sequence, and that sequence has
\* len(start node) elements.
C6_TwiceSameSequence ==
    (/\ outer.status = "done"
     /\ Clean(outer)
     /\ prev.clean
     /\ prev.start = outer.start) =>
        /\ outer.got = prev.got
        /\ Len(outer.got) = len(Cur, outer.start)

----------------------------------------------------------------------------
\* A caller that assigns attributes and shifts page numbers.

\* The values a caller assigns: of every type __setattr__ tells apart, valid
\* and invalid for each of the validated attributes.
Values ==
    {PyNone, PyBool(TRUE), PyInt(2), PyInt(0 - 1), PyLong(2),
     PyUnicode(<<"F", "i", "t">>), PyUnicode(<<"B", "a", "d">>),
     PyStr(<<"G", "o", "T", "o">>), PyUnicode(<<"1", " ", "1", " ", "1">>),
     PyUnicode(<<"B", EAcute>>), PyStr(<<EAcute>>)}

\* The offsets a caller shifts by.
Offsets == {PyInt(1), PyInt(0 - 1), PyInt(0 - 3), PyLong(1)}

OpAssign(self, name, value, exc) ==
    [op |-> "setattr", self |-> self, other |-> None, i |-> 0, ret |-> None,
     exc |-> exc, name |-> name, value |-> value]

OpShift(self, offset, exc) ==
    [op |-> "shift", self |-> self, other |-> None, i |-> 0, ret |-> None,
     exc |-> exc, offset |-> offset]

\* self.name = value
Assign(self, name, value) ==
    /\ ops > 0
    /\ ops' = ops - 1
    /\ LET st == __setattr__(Cur, self, name, value)
       IN CommitWithin([st EXCEPT !.exc = FALSE], OpAssign(self, name, value, st.exc),
                       MaxHeap)
    /\ UNCHANGED <<outer, inner, prev>>

\* self.shift_pagenumber(offset)
Shift(self, offset) ==
    /\ ops > 0
    /\ ops' = ops - 1
    /\ LET st == shift_pagenumber(Cur, self, offset)
       IN CommitWithin([st EXCEPT !.exc = FALSE], OpShift(self, offset, st.exc), MaxHeap)
    /\ UNCHANGED <<outer, inner, prev>>

AttrInit ==
    /\ \E st \in Built(MaxBuild) : InitHeap(st)
    /\ ops = MaxOps
    /\ outer = NoLoop
    /\ inner = NoLoop
    /\ prev = NoPrev
    /\ last = Op("init", None, None, 0, None, FALSE)

NextAttr ==
    \/ \E self \in Live, k \in 1..Len(AttrNames), value \in Values :
          Assign(self, AttrNames[k], value)
    \/ \E self \in Live, offset \in Offsets : Shift(self, offset)

SpecAttr == AttrInit /\ [][NextAttr]_vars

(***************************************************************************)
(* Claims about attribute values and page shifts.                          *)
(***************************************************************************)

\* The page of node n in heap st, as a number.
Page(st, n) == Num(st.attr[n].page)

\* A page number plus an offset, not below zero.
Shifted(p, k) == IF p + k < 0 THEN 0 ELSE p + k

\* Every attribute of every node but attribute name of node n is the same
\* before and after the step.
OtherAttrsUnchanged(n, name) ==
    \A m \in Obj : \A k \in 1..Len(AttrNames) :
        (m # n \/ AttrNames[k] # name) => attr'[m][AttrNames[k]] = attr[m][AttrNames[k]]

\* C12: shift_pagenumber(offset) on a node adds the offset to the page of
\* every node below that node and leaves the page of every other node, the
\* node itself included, as it was.
C12_ShiftOnlyBelow ==
    [][(last'.op = "shift" /\ TreeConsistent(Cur, last'.self)) =>
          /\ ~last'.exc
          /\ \A n \in Live :
                 IF n \in Subtree(Cur, last'.self) \ {last'.self}
                 THEN Page(CurNext, n) = Shifted(Page(Cur, n), Num(last'.offset))
                 ELSE attr'[n].page = attr[n].page]_vars

\* C13: when no page of the tree goes below zero on the way, shifting by a
\* and then by b leaves every page below the start node at its value plus
\* a + b, and shifting by k and then by -k leaves every page as it was.
C13_ShiftsAddUp ==
    [][last'.op = "shift" =>
          \A b \in Offsets :
              LET s == last'.self
                  a == Num(last'.offset)
                  st2 == shift_pagenumber(CurNext, s, b)
              IN (\A n \in Live : /\ Page(Cur, n) + a >= 0
                                   /\ Page(Cur, n) + a + Num(b) >= 0) =>
                     /\ ~last'.exc
                     /\ ~st2.exc
                     /\ \A n \in Subtree(Cur, s) \ {s} :
                            Page(st2, n) = Page(Cur, n) + a + Num(b)
                     /\ Num(b) = 0 - a =>
                            \A n \in Live : Page(st2, n) = Page(Cur, n)]_vars

\* C14: an assignment to page stores the assigned value when it is an
\* integer that is not negative and 0 otherwise, a shift stores the sum
\* when it is not negative and 0 otherwise, and so the page of every node
\* is an integer that is not negative in every state.
C14_PageStored ==
    [][/\ \A n \in Live : IsNumber(attr'[n].page) /\ Page(CurNext, n) >= 0
       /\ (last'.op = "setattr" /\ last'.name = "page") =>
              IF IsNumber(last'.value) /\ Num(last'.value) >= 0
              THEN PyEq(attr'[last'.self].page, last'.value)
              ELSE Page(CurNext, last'.self) = 0
       /\ last'.op = "shift" =>
              \A n \in Live :
                  \/ attr'[n].page = attr[n].page
                  \/ Page(CurNext, n) = Shifted(Page(Cur, n), Num(last'.offset))]_vars

\* A value that the attribute does not admit: an action that is none of
\* GoTo, GoToR, URI, Launch and unset; a destination or colour that is
\* not a string of its grammar; a flag that is not a boolean (unset is
\* admitted for newwindow).
InvalidFor(name, value) ==
    CASE name = "action" -> ~IsAction(value)
      [] name = "destination" ->
            value.t # "NoneType"
              /\ ~(IsString(value) /\ IsAscii(value.v) /\ match(destpattern, strip(value.v)))
      [] name = "color" ->
            value.t # "NoneType"
              /\ ~(IsString(value) /\ IsAscii(value.v) /\ match(colorpattern, strip(value.v)))
      [] name \in {"italic", "bold", "open"} -> value.t # "bool"
      [] name = "newwindow" -> value.t \notin {"bool", "NoneType"}
      [] OTHER -> FALSE

\* C15: the assignment of a value that the attribute does not admit
\* leaves the attribute as it was, writes a warning, and changes no other
\* attribute.
C15_InvalidRejected ==
    [][(last'.op = "setattr" /\ InvalidFor(last'.name, last'.value)) =>
          /\ attr'[last'.self][last'.name] = attr[last'.self][last'.name]
          /\ OtherAttrsUnchanged(last'.self, last'.name)
          /\ ~last'.exc
          /\ warned' >= 1]_vars

(***************************************************************************)
(* Claims about delete() and flush().                                      *)
(***************************************************************************)

\* The node without a parent above n.
RECURSIVE Top(_, _)
Top(st, n) == IF st._parent[n] = None THEN n ELSE Top(st, st._parent[n])

\* list(s) on the heap as it is.
Listed(st, s) == Exhaust(st, s, MaxNodes + 1)

\* C17: delete() on a node sets the deletion flag of that node and nothing
\* else: no flag of another node, no parent, child list, position, level
\* or attribute changes, len() of every ancestor is what it was, every
\* loop yields what it yielded before, and a loop over the root of a tree
\* with consistent links yields the flagged node.
C17_DeleteOnlyFlags ==
    [][last'.op = "delete" =>
          LET n == last'.self IN
          /\ ~last'.exc
          /\ _delete'[n]
          /\ \A m \in Obj \ {n} : _delete'[m] = _delete[m]
          /\ _parent' = _parent
          /\ _children' = _children
          /\ _childnumber' = _childnumber
          /\ _level' = _level
          /\ attr' = attr
          /\ \A a \in Ancestors(Cur, n) : len(CurNext, a) = len(Cur, a)
          /\ \A s \in Live : Listed(CurNext, s) = Listed(Cur, s)
          /\ (LinksConsistent(Cur) /\ _parent[n] # None) =>
                 n \in Range(Listed(Pristine(CurNext), Top(Cur, n)))]_vars

\* A node with a parent and a child has been flagged and not flushed: it
\* is still in its parent's list and a loop over the root yields it.
C17_Witness ==
    /\ last.op = "delete"
    /\ _delete[last.self]
    /\ _parent[last.self] # None
    /\ last.self \in Range(_children[_parent[last.self]])
    /\ _children[last.self] # <<>>
    /\ last.self \in Range(Listed(Pristine(Cur), Top(Cur, last.self)))

\* C18: flush() on a node N that has a parent, in a tree with consistent
\* links, detaches flagged nodes below N only: every node that is not
\* below N, flagged or not, keeps its parent and its place in its
\* parent's list, and so does every node below N that is not flagged.
C18_FlushBelowOnly ==
    [][(last'.op = "flush" /\ ~is_root(Cur, last'.self)
            /\ TreeConsistent(Cur, Top(Cur, last'.self))) =>
          LET N == last'.self
              below == Subtree(Cur, N) \ {N}
          IN /\ ~last'.exc
             /\ \A m \in Live :
                    (m \notin below \/ ~_delete[m]) => _parent'[m] = _parent[m]
             /\ \A p \in Live \ Subtree(Cur, N) : _children'[p] = _children[p]]_vars

----------------------------------------------------------------------------
\* A caller that builds trees, gives their nodes attribute values, copies
\* them and adds them, on a heap of MaxHeap nodes.

\* One value that __setattr__ stores unchanged for each attribute, none of
\* them the value __init__ gives.
MarkValue ==
    [action |-> PyUnicode(<<"G", "o", "T", "o">>),
     title |-> PyUnicode(<<"T">>),
     page |-> PyInt(2),
     destination |-> PyUnicode(<<"F", "i", "t">>),
     named |-> PyUnicode(<<"N">>),
     namedn |-> PyInt(1),
     file |-> PyUnicode(<<"F">>),
     newwindow |-> PyBool(TRUE),
     uri |-> PyUnicode(<<"U">>),
     italic |-> PyBool(TRUE),
     bold |-> PyBool(TRUE),
     color |-> PyUnicode(<<"1", " ", "1", " ", "1">>),
     open |-> PyBool(FALSE)]

\* self.name = value, for the value of MarkValue
Mark(self, name) ==
    /\ ops > 0
    /\ ops' = ops - 1
    /\ LET st == __setattr__(Cur, self, name, MarkValue[name])
       IN CommitWithin([st EXCEPT !.exc = FALSE],
                       OpAssign(self, name, MarkValue[name], st.exc), MaxHeap)
    /\ UNCHANGED <<outer, inner, prev>>

\* self.newchild()
TreeNewchild(self) ==
    /\ ops > 0
    /\ ops' = ops - 1
    /\ CommitWithin(newchild(Bookmark(Cur), self, used + 1),
                    Op("newchild", self, None, 0, used + 1, FALSE), MaxHeap)
    /\ UNCHANGED <<outer, inner, prev>>

\* self.copy()
TreeCopy(self) ==
    /\ ops > 0
    /\ ops' = ops - 1
    /\ used + 1 + len(Cur, self) <= MaxHeap
    /\ LET c == copy(Cur, self)
       IN CommitWithin([c.st EXCEPT !.exc = FALSE],
                       Op("copy", self, None, 0, c.node, c.st.exc), MaxHeap)
    /\ UNCHANGED <<outer, inner, prev>>

\* self + other
TreeAdd(self, other) ==
    /\ ops > 0
    /\ ops' = ops - 1
    /\ used + 1 + len(Cur, self) <= MaxHeap
    /\ LET c == __add__(Cur, self, other)
       IN CommitWithin([c.st EXCEPT !.exc = FALSE],
                       Op("add", self, other, 0, c.node, c.st.exc), MaxHeap)
    /\ UNCHANGED <<outer, inner, prev>>

TreeInit ==
    /\ \E st \in Built(MaxBuild) : InitHeap(st)
    /\ ops = MaxOps
    /\ outer = NoLoop
    /\ inner = NoLoop
    /\ prev = NoPrev
    /\ last = Op("init", None, None, 0, None, FALSE)

NextTree ==
    \/ \E self \in Live, k \in 1..Len(AttrNames) : Mark(self, AttrNames[k])
    \/ \E self \in Live : TreeNewchild(self)
    \/ \E self \in Live : TreeCopy(self)
    \/ \E self \in Live, other \in Live : TreeAdd(self, other)

SpecTree == TreeInit /\ [][NextTree]_vars

(***************************************************************************)
(* Claims about copies, sums and equality.                                 *)
(***************************************************************************)

\* Node a and node b carry the same thirteen attribute values, and their
\* child lists are equally long and pair up the same way, at every depth.
RECURSIVE SameTree(_, _, _)
SameTree(st, a, b) ==
    /\ st.attr[a] = st.attr[b]
    /\ Len(st._children[a]) = Len(st._children[b])
    /\ \A i \in 1..Len(st._children[a]) :
           SameTree(st, st._children[a][i], st._children[b][i])

\* What a caller can see of the nodes of S.
View(st, S) ==
    [n \in S |-> [parent |-> st._parent[n], children |-> st._children[n],
                  level |-> st._level[n], attr |-> st.attr[n],
                  flagged |-> st._delete[n]]]

\* The heaps after one more operation on a node of S: an assignment, a
\* deletion followed by flush() on a node of S, or a page shift.
Later(st, S) ==
    UNION {{__setattr__(st, n, AttrNames[k], v) :
                v \in {MarkValue[AttrNames[k]], PyInt(0 - 1)}} :
              n \in S, k \in 1..Len(AttrNames)}
      \cup {flush(delete(st, n), r) : n \in S, r \in S}
      \cup {shift_pagenumber(st, n, PyInt(1)) : n \in S}

\* C11: copy() on a node returns a node that was not on the heap before,
\* with nothing but new nodes below it, that carries the same attribute
\* values and the same child structure as the original at every depth;
\* the original is as it was; and an assignment, a deletion with flush()
\* or a page shift on a node of the copy afterwards leaves every node of
\* the original as it is, and the same on the original leaves the copy.
C11_CopyIsDeepClone ==
    [][last'.op = "copy" =>
          LET o == last'.self
              c == last'.ret
              orig == Subtree(Cur, o)
              cop == Subtree(CurNext, c)
          IN /\ ~last'.exc
             /\ cop \subseteq (used + 1)..used'
             /\ _parent'[c] = None
             /\ SameTree(CurNext, o, c)
             /\ View(CurNext, 1..used) = View(Cur, 1..used)
             /\ \A st \in Later(CurNext, cop) :
                    View(st, 1..used) = View(CurNext, 1..used)
             /\ \A st \in Later(CurNext, 1..used) :
                    View(st, cop) = View(CurNext, cop)]_vars

\* A node with a child has been copied, the child had been given an
\* attribute value, and the copy of the child carries it.
C11_Witness ==
    /\ last.op = "copy"
    /\ ~last.exc
    /\ _children[last.self] # <<>>
    /\ _children[last.ret] # <<>>
    /\ attr[_children[last.self][1]] # InitAttrs
    /\ attr[_children[last.ret][1]] = attr[_children[last.self][1]]

\* C16: a == b is true exactly when a and b have the same number of
\* nodes below them and a and b, and the nodes below them taken pair by
\* pair in preorder, at every depth, carry identical values of the
\* thirteen attributes.
C16_EqualIffSameNodes ==
    \A a \in Live, b \in Live :
        __eq__(Cur, a, b) <=>
            /\ len(Cur, a) = len(Cur, b)
            /\ attr[a] = attr[b]
            /\ \A i \in 1..len(Cur, a) :
                   attr[Preorder(Cur, a)[i]] = attr[Preorder(Cur, b)[i]]

\* C19: a + b returns a node that was not on the heap before, whose
\* children are new nodes that carry the attribute values and the child
\* structure of a's children, in their order, followed by the children of
\* b themselves; a has the child list, the len() and, on every node below
\* it and on itself, the attribute values it had.
C19_SumLeavesLeftOperand ==
    [][last'.op = "add" =>
          LET a == last'.self
              b == last'.other
              r == last'.ret
              n == Len(_children[a])
          IN /\ ~last'.exc
             /\ r \notin 1..used
             /\ Len(_children'[r]) = n + Len(_children[b])
             /\ \A i \in 1..n :
                    /\ _children'[r][i] \notin 1..used
                    /\ SameTree(CurNext, _children[a][i], _children'[r][i])
             /\ SubSeq(_children'[r], n + 1, n + Len(_children[b])) = _children[b]
             /\ _children'[a] = _children[a]
             /\ len(CurNext, a) = len(Cur, a)
             /\ Subtree(CurNext, a) = Subtree(Cur, a)
             /\ \A m \in Subtree(Cur, a) :
                    /\ attr'[m] = attr[m]
                    /\ _children'[m] = _children[m]]_vars

\* A tree whose child carries an attribute value has been added to
\* another tree with a child: the sum has a copy of the first child
\* followed by the child of the second tree.
C19_Witness ==
    /\ last.op = "add"
    /\ ~last.exc
    /\ last.self # last.other
    /\ Len(_children[last.self]) = 1
    /\ Len(_children[last.other]) = 1
    /\ attr[_children[last.self][1]] # InitAttrs
    /\ Len(_children[last.ret]) = 2
    /\ attr[_children[last.ret][1]] = attr[_children[last.self][1]]
    /\ _children[last.ret][1] # _children[last.self][1]
    /\ _children[last.ret][2] = _children[last.other][1]

----------------------------------------------------------------------------
\* The readers read_pdftk, read_text, read_csv and read_latex.  Each reads
\* its file line by line and keeps current_node, the node it added last
\* (the root before the first), and current_level, the level of that node.
\* read_djvused keeps current_node only, which is None until a line
\* "(bookmarks" is read.

Formats == {"pdftk", "text", "csv", "latex", "djvused"}

\* In a record, the field that is absent.
Absent == 0 - 1

\* What a record can say about its level.
\*   pdftk : the number of the BookmarkLevel line, or no such line
\*   text  : the number of groups of four blanks the line begins with
\*   csv   : the depth field, which may be negative
\*   latex : the number of the level option, or no such option
LevelFields(format) ==
    CASE format = "pdftk" -> {Absent} \cup (0..MaxLevel)
      [] format = "text" -> 0..(MaxLevel - 1)
      [] format = "csv" -> (0 - 1)..MaxLevel
      [] format = "latex" -> {Absent} \cup (0..(MaxLevel - 1))
      [] OTHER -> {}

\* The page field: a number, or (text: no digit, latex: no page option) none.
PageFields(format) ==
    IF format \in {"text", "latex"} THEN {PyInt(1), PyNone} ELSE {PyInt(1)}

\* The destination field: none, or a string that is not a destination.
\* A pdftk file has no such field.
DestFields(format) ==
    IF format = "pdftk" THEN {PyNone}
    ELSE {PyNone, PyUnicode(<<"X", "Y", "Z", EAcute>>)}

\* A pdftk record with or without a BookmarkTitle line; the records of the
\* other files always have a title.
TitleFields(format) == IF format = "pdftk" THEN BOOLEAN ELSE {TRUE}

Records(format) ==
    [level : LevelFields(format), page : PageFields(format), dest : DestFields(format),
     title : TitleFields(format)]

\* The value of the variable level when the node of the record is added.
LevelOf(rd, rec) ==
    CASE rd.format = "pdftk" -> IF rec.level = Absent THEN rd.level ELSE rec.level
      [] rd.format = "text" -> rec.level + 1
      [] rd.format = "csv" -> rec.level
      [] rd.format = "latex" -> IF rec.level = Absent THEN 1 ELSE rec.level + 1

\* The while loop that leaves current_level unchanged.
ClimbLoopNot(st, node, cl, level) == [node |-> node, cl |-> cl, exc |-> FALSE]

\* while current_level > level:
\*     current_node = current_node.parent(); current_level -= 1
\* None.parent() raises AttributeError.
RECURSIVE ClimbLoop(_, _, _, _)
ClimbLoop(st, node, cl, level) ==
    IF cl > level
    THEN IF node = None
         THEN [node |-> None, cl |-> cl, exc |-> TRUE]
         ELSE ClimbLoop(st, st._parent[node], cl - 1, level)
    ELSE [node |-> node, cl |-> cl, exc |-> FALSE]

\* A reader that adds the node below current_node whatever the level is.
AddNodeAnyLevel(st, rd, level) ==
    [st |-> newchild(Bookmark(st), rd.current_node, st.used + 1),
     rd |-> [rd EXCEPT !.current_node = st.used + 1,
                       !.current_level = rd.current_level + 1, !.level = level]]

\* The lines that every reader has between the computation of level and
\* the assignment of the attributes: die() when the level is more than one
\* below current_level, else climb and add the new node.
AddNode(st, rd, level) ==
    IF level - rd.current_level > 1
    THEN [st |-> st, rd |-> [rd EXCEPT !.status = "died", !.level = level]]
    ELSE LET w == ClimbLoop(st, rd.current_node, rd.current_level, level)
             same == ~w.exc /\ level = w.cl
             node == IF same /\ w.node # None THEN st._parent[w.node] ELSE w.node
             cl == IF same THEN w.cl - 1 ELSE w.cl
         IN IF w.exc \/ (same /\ w.node = None) \/ node = None
            THEN [st |-> [st EXCEPT !.exc = TRUE],
                  rd |-> [rd EXCEPT !.status = "raised", !.level = level]]
            ELSE [st |-> newchild(Bookmark(st), node, st.used + 1),
                  rd |-> [rd EXCEPT !.current_node = st.used + 1,
                                    !.current_level = cl + 1, !.level = level]]

\* Assignments to attributes of node one after the other, up to the first
\* that raises.
RECURSIVE Assignments(_, _, _, _)
Assignments(st, node, todo, i) ==
    IF i > Len(todo) \/ st.exc THEN st
    ELSE Assignments(__setattr__(st, node, todo[i].name, todo[i].value), node, todo, i + 1)

To(name, value) == [name |-> name, value |-> value]

Stripped(x) == IF x.t \in {"str", "unicode"} THEN [x EXCEPT !.v = strip(x.v)] ELSE x

GoTo == PyStr(<<"G", "o", "T", "o">>)

\* The assignments a reader makes to the node of a record.
Fill(st, rd, rec) ==
    LET node == rd.current_node
        title == IF rd.format = "pdftk" THEN rd.title ELSE PyUnicode(<<"T">>)
        page == IF rec.page = PyNone THEN <<>> ELSE <<To("page", rec.page)>>
        dest == IF rec.dest = PyNone THEN <<>>
                ELSE <<To("destination", Stripped(rec.dest))>>
    IN CASE rd.format = "pdftk" ->
              Assignments(st, node,
                  <<To("title", Stripped(title)), To("page", rec.page),
                    To("action", GoTo)>>, 1)
         [] rd.format = "text" ->
              LET st1 == __setattr__(st, node, "title", Stripped(title))
                  st2 == IF st1.exc THEN st1
                         ELSE IF rec.page = PyNone
                         THEN __setattr__(warn(st1, TRUE), node, "page", PyInt(0))
                         ELSE __setattr__(st1, node, "page", rec.page)
              IN Assignments(st2, node, dest \o <<To("action", GoTo)>>, 1)
         [] rd.format = "csv" ->
              LET st1 == Assignments(st, node,
                             <<To("title", title), To("page", rec.page),
                               To("destination", rec.dest)>>, 1)
                  again == IF st1.exc \/ st1.attr[node].destination = PyNone THEN <<>>
                           ELSE <<To("destination", Stripped(st1.attr[node].destination))>>
              IN Assignments(st1, node,
                     again \o <<To("action", GoTo), To("open", PyBool(FALSE)),
                                To("file", PyNone), To("uri", PyNone),
                                To("color", PyNone)>>, 1)
         [] rd.format = "latex" ->
              Assignments(st, node,
                  <<To("title", Stripped(title)), To("action", GoTo)>> \o page \o dest, 1)

OpRead(op, level, rd, exc) ==
    [op |-> op, self |-> rd.current_node, other |-> None, i |-> 0,
     ret |-> rd.current_node, exc |-> exc, level |-> level, status |-> rd.status]

\* root = Bookmark(); current_node = root; current_level = 0; open the file
Open(format) ==
    /\ reader.status = "idle"
    /\ LET rd == [format |-> format, status |-> "reading",
                  current_node |-> IF format = "djvused" THEN None ELSE used + 1,
                  current_level |-> 0, level |-> 0, title |-> PyStr(<<>>)]
       IN /\ HeapNext(Bookmark(Cur), MaxHeap)
          /\ reader' = rd
          /\ last' = OpRead("open", 0, rd, FALSE)
    /\ UNCHANGED <<ops, outer, inner, prev, file>>

\* One record of the file: in a pdftk file the lines up to and including a
\* BookmarkPageNumber line, in the other files one line that matches
\* linepattern.
ReadRecord(rec) ==
    /\ reader.status = "reading"
    /\ ops > 0
    /\ ops' = ops - 1
    /\ LET rd0 == IF reader.format = "pdftk" /\ rec.title
                  THEN [reader EXCEPT !.title = PyUnicode(<<"T">>)] ELSE reader
           level == LevelOf(rd0, rec)
           a == AddNode(Cur, rd0, level)
           st == IF a.rd.status = "reading" THEN Fill(a.st, a.rd, rec) ELSE a.st
           rd == IF st.exc THEN [a.rd EXCEPT !.status = "raised"] ELSE a.rd
       IN /\ HeapNext([st EXCEPT !.exc = FALSE], MaxHeap)
          /\ reader' = rd
          /\ last' = OpRead("record", level, rd, st.exc)
    /\ UNCHANGED <<outer, inner, prev, file>>

\* The lines of a djvused file that read_djvused matches: "(bookmarks",
\* the line of a title, and the line of a target (a page "#1", a URI or a
\* page of another file "f#1") with the closing parentheses behind it.
DjvusedLines ==
    [kind : {"start", "title"}, target : {"none"}, endings : {0}]
      \cup [kind : {"target"}, target : {"page", "uri", "file"}, endings : 0..MaxLevel]

\* for i in xrange(endings): current_node = current_node.parent()
RECURSIVE ParentLoop(_, _, _)
ParentLoop(st, node, i) ==
    IF i = 0 THEN [node |-> node, exc |-> FALSE]
    ELSE IF node = None THEN [node |-> None, exc |-> TRUE]
    ELSE ParentLoop(st, st._parent[node], i - 1)

\* The body of the loop of read_djvused for a line that matches one of its
\* three patterns.  An attribute or method of None raises AttributeError.
DjvusedLine(st, rd, line) ==
    LET raised == [st |-> [st EXCEPT !.exc = TRUE], rd |-> [rd EXCEPT !.status = "raised"]]
        node == rd.current_node
        root == CHOOSE n \in 1..st.used : st._parent[n] = None
    IN CASE line.kind = "start" -> [st |-> st, rd |-> [rd EXCEPT !.current_node = root]]
         [] line.kind = "title" ->
              IF node = None THEN raised
              ELSE LET st1 == newchild(Bookmark(st), node, st.used + 1)
                       st2 == __setattr__(st1, st.used + 1, "title", PyUnicode(<<"T">>))
                   IN [st |-> st2,
                       rd |-> [rd EXCEPT !.current_node = st.used + 1,
                                         !.status = IF st2.exc THEN "raised" ELSE @]]
         [] line.kind = "target" ->
              IF node = None THEN raised
              ELSE LET st1 ==
                         CASE line.target = "uri" ->
                                Assignments(st, node,
                                    <<To("action", PyStr(<<"U", "R", "I">>)),
                                      To("uri", PyUnicode(<<"U">>))>>, 1)
                           [] line.target = "page" ->
                                Assignments(st, node,
                                    <<To("action", GoTo), To("page", PyInt(1))>>, 1)
                           [] line.target = "file" ->
                                Assignments(st, node,
                                    <<To("action", PyStr(<<"G", "o", "T", "o", "R">>)),
                                      To("file", PyUnicode(<<"F">>)),
                                      To("page", PyUnicode(<<"1">>))>>, 1)
                       up == ParentLoop(st1, node, line.endings)
                   IN IF st1.exc \/ up.exc
                      THEN [st |-> [st1 EXCEPT !.exc = TRUE],
                            rd |-> [rd EXCEPT !.status = "raised"]]
                      ELSE [st |-> st1, rd |-> [rd EXCEPT !.current_node = up.node]]

\* One line of a djvused file that matches a pattern of read_djvused.
ReadDjvused(line) ==
    /\ reader.status = "reading"
    /\ reader.format = "djvused"
    /\ ops > 0
    /\ ops' = ops - 1
    /\ LET r == DjvusedLine(Cur, reader, line)
       IN /\ HeapNext([r.st EXCEPT !.exc = FALSE], MaxHeap)
          /\ reader' = r.rd
          /\ last' = OpRead(line.kind, 0, r.rd, r.st.exc)
    /\ UNCHANGED <<outer, inner, prev, file>>

\* A read_latex that warns as the other readers do.
IgnoredWithWarning(st, rd) == warn(st, TRUE)

\* The else branch of the test for a match: in read_pdftk, read_text,
\* read_csv and read_djvused warn("Ignored line %s. Not parsable" % line_nr);
\* the test of read_latex has no else branch.
Ignored(st, rd) == IF rd.format = "latex" THEN st ELSE warn(st, TRUE)

\* A line that matches no pattern of the reader.
ReadOther ==
    /\ reader.status = "reading"
    /\ ops > 0
    /\ ops' = ops - 1
    /\ HeapNext(Ignored(Cur, reader), MaxHeap)
    /\ reader' = reader
    /\ last' = OpRead("other", 0, reader, FALSE)
    /\ UNCHANGED <<outer, inner, prev, file>>

\* The end of the file: infile.close(); return root
Close ==
    /\ reader.status = "reading"
    /\ HeapNext(Cur, MaxHeap)
    /\ reader' = [reader EXCEPT !.status = "returned"]
    /\ last' = OpRead("close", 0, reader, FALSE)
    /\ UNCHANGED <<ops, outer, inner, prev, file>>

ReadInit ==
    /\ InitHeap(Fresh)
    /\ ops = MaxOps + 2
    /\ outer = NoLoop
    /\ inner = NoLoop
    /\ prev = NoPrev
    /\ last = Op("init", None, None, 0, None, FALSE)

NextRead ==
    \/ \E format \in Formats : Open(format)
    \/ \E rec \in Records(reader.format) : ReadRecord(rec)
    \/ \E line \in DjvusedLines : ReadDjvused(line)
    \/ ReadOther
    \/ Close

SpecRead == ReadInit /\ [][NextRead]_vars

(***************************************************************************)
(* Claims about the readers.                                               *)
(***************************************************************************)

\* The node added last among the nodes of level l.
LatestOfLevel(st, l) ==
    CHOOSE n \in 1..st.used :
        /\ st._level[n] = l
        /\ \A m \in 1..st.used : st._level[m] = l => m <= n

\* C20: in each of the four readers, a record whose level L is at least 1
\* and at most one more than the level of the node added before it adds
\* exactly one node; the level of that node is L, its parent is the node
\* added last among the nodes of level L - 1, which is the root when L is
\* 1, and it is the last child of that parent; no other node gets another
\* parent, level or child list.
C20_RecordAddsNodeAtLevel ==
    [][(last'.op = "record" /\ last'.level >= 1
            /\ last'.level <= _level[used] + 1) =>
          LET L == last'.level
              p == LatestOfLevel(Cur, L - 1)
              n == used + 1
          IN /\ last'.status # "died"
             /\ used' = n
             /\ _level'[n] = L
             /\ _parent'[n] = p
             /\ L = 1 => p = 1
             /\ _children'[p] = Append(_children[p], n)
             /\ \A m \in 1..used :
                    /\ _parent'[m] = _parent[m]
                    /\ _level'[m] = _level[m]
                    /\ m # p => _children'[m] = _children[m]]_vars

\* After records of level 1, 2 and 3 a record of level 1 has been read, and
\* its node is the second child of the root.
C20_Witness ==
    /\ last.op = "record"
    /\ last.level = 1
    /\ used = 5
    /\ _level = [n \in Obj |-> IF n \in 2..4 THEN n - 1 ELSE IF n = 5 THEN 1 ELSE 0]
    /\ _children[1] = <<2, 5>>
    /\ _parent[5] = 1

(***************************************************************************)
(* Claims about the order of trees.                                        *)
(***************************************************************************)

\* How many nodes are below n.
Size(st, n) == Cardinality(Subtree(st, n) \ {n})

SameTrees ==
    /\ used' = used
    /\ _parent' = _parent
    /\ _children' = _children
    /\ _level' = _level
    /\ attr' = attr

\* C21: in each of the four readers a record whose level is more than one
\* above the level of the node added before it (above 1 when it is the
\* first record) ends the read by die(): no node is added, and after it
\* the reader reads no line and returns no tree.
C21_LevelJumpIsFatal ==
    [][/\ (last'.op = "record" /\ last'.level > _level[used] + 1) =>
              /\ reader'.status = "died"
              /\ ~last'.exc
              /\ SameTrees
       /\ reader.status # "died"]_vars

\* A reader has added a node and then died on a record two levels deeper.
C21_Witness ==
    /\ last.op = "record"
    /\ reader.status = "died"
    /\ used >= 2
    /\ last.level = _level[used] + 2

\* C22: a record of read_csv, read_pdftk, read_text or read_latex, and the
\* line of a title of read_djvused, ends in exactly one of three ways: one
\* node is added, nothing is added and a warning is written, or the read
\* ends by die(); no exception leaves the reader.
C22_RecordOutcomes ==
    [][last'.op \in {"record", "title"} =>
          LET added == used' = used + 1 /\ reader'.status = "reading"
              skipped == SameTrees /\ warned' > 0 /\ reader'.status = "reading"
              died == SameTrees /\ reader'.status = "died"
          IN /\ ~last'.exc
             /\ added \/ skipped \/ died
             /\ ~(added /\ died) /\ ~(skipped /\ died)]_vars

----------------------------------------------------------------------------
\* The serializers write_text, write_pdftk, write_csv, write_latex,
\* write_xml, write_html and write_djvused.  What a serializer does is the
\* sequence of its events in the order of the calls: a record it writes to
\* the file, another line it writes, or a warning it passes to warn().  A
\* record holds the fields of the line as they are written, each a
\* sequence of characters.

Warning(category) == [kind |-> "warning", category |-> category]

OtherLine(text) == [kind |-> "other", text |-> text]

\* The records among the events of a file.
RecordsOf(events) == SelectSeq(events, LAMBDA e : e.kind = "record")

\* The categories of the warnings among the events, in their order.
WarningsOf(events) ==
    LET w == SelectSeq(events, LAMBDA e : e.kind = "warning")
    IN [i \in 1..Len(w) |-> w[i].category]

\* str(value), "%s" % value
Str(x) == ToUnicode(x).value.v

\* value == 'chars' for a str literal
Is(x, chars) == PyEq(x, PyStr(chars))

\* The truth value of an attribute in a condition.
Truth(x) ==
    CASE x.t = "NoneType" -> FALSE
      [] x.t \in {"str", "unicode"} -> x.v # <<>>
      [] x.t = "bool" -> x.v[1]
      [] OTHER -> x.v[1] # 0

\* count copies of unit, as in unit * count; none when count is below 1
RECURSIVE Times(_, _)
Times(unit, count) == IF count <= 0 THEN <<>> ELSE unit \o Times(unit, count - 1)

\* ''.join of a sequence of sequences of characters
RECURSIVE Join(_)
Join(parts) == IF parts = <<>> THEN <<>> ELSE Head(parts) \o Join(Tail(parts))

\* for node in root: the nodes that next() yields until it raises
\* StopIteration, the heap after each of these calls and the heap after
\* the loop.
RECURSIVE ForLoop(_, _, _)
ForLoop(st, root, k) ==
    LET r == next(st, root)
    IN IF k = 0 \/ r.st.exc \/ r.node = None
       THEN [st |-> r.st, got |-> <<>>, mid |-> <<>>]
       ELSE LET rest == ForLoop(r.st, root, k - 1)
            IN [st |-> rest.st, got |-> <<r.node>> \o rest.got,
                mid |-> <<r.st>> \o rest.mid]

\* The body of a loop for the nodes one after the other, up to the first
\* for which it raises: the records written and the warnings collected in
\* the set warnings.
Bodies(nodes, Body) ==
    LET res == [i \in 1..Len(nodes) |-> Body[nodes[i]]]
        bad == {i \in 1..Len(nodes) : res[i].exc}
        stop == IF bad = {} THEN Len(nodes) + 1
                ELSE CHOOSE i \in bad : \A j \in bad : i <= j
    IN [exc |-> bad # {},
        stop |-> stop,
        records |-> [i \in 1..(stop - 1) |-> res[i].record],
        warnings |-> UNION {res[i].warnings : i \in 1..(stop - 1)}]

\* The categories of the warnings of the serializers, by the feature the
\* message names.
Categories ==
    <<"trimmed", "blank title", "action", "formatting", "destination", "closed",
      "launch">>

\* for warning in warnings: warn(""); warn(warning)
\* The order of a Python set of strings is that of their hash values; the
\* order of Categories stands for it.
RECURSIVE Warnings(_, _)
Warnings(warnings, i) ==
    IF i > Len(Categories) THEN <<>>
    ELSE (IF Categories[i] \in warnings
          THEN <<Warning(""), Warning(Categories[i])>> ELSE <<>>)
           \o Warnings(warnings, i + 1)

\* The loop of an iterating serializer, outfile.close() and the warnings.
\* A body that raises leaves the function at once.
Serialized(st, root, format, before, Body, after) ==
    LET closed(loop, b) ==
            LET w == IF b.exc THEN <<>> ELSE Warnings(b.warnings, 1)
                end == IF b.exc THEN loop.mid[b.stop] ELSE loop.st
            IN [st |-> [end EXCEPT !.exc = b.exc, !.warned = Len(w)],
                file |-> [format |-> format,
                          events |-> before \o b.records
                                       \o (IF b.exc THEN <<>> ELSE after \o w)]]
        looped(loop) == closed(loop, Bodies(loop.got, Body))
    IN looped(ForLoop(st, root, MaxHeap + 1))

\* The body of the loop of write_text.
write_text_body(st, node, long) ==
    LET a == st.attr[node]
        stripped == strip(a.title.v)
        title == IF stripped = <<>> THEN <<"_">> ELSE stripped
        dest == a.destination
        said == [c \in {"trimmed", "blank title", "action", "formatting",
                        "destination", "closed"} |->
                   CASE c = "trimmed" -> stripped # a.title.v
                     [] c = "blank title" -> stripped = <<>>
                     [] c = "action" -> ~Is(a.action, <<"G", "o", "T", "o">>)
                     [] c = "formatting" ->
                          a.color.t # "NoneType" \/ Truth(a.bold) \/ Truth(a.italic)
                     [] c = "destination" ->
                          ~long /\ (dest.t # "NoneType" \/ ~Is(dest, <<>>))
                     [] c = "closed" -> ~Truth(a.open)]
    IN [exc |-> a.title.t = "NoneType",
        record |-> [kind |-> "record",
                    indent |-> Times(<<" ", " ", " ", " ">>, st._level[node] - 1),
                    title |-> title,
                    page |-> Str(a.page),
                    dest |-> IF long /\ dest.t # "NoneType" /\ ~Is(dest, <<>>)
                             THEN dest ELSE PyNone],
        warnings |-> {c \in DOMAIN said : said[c]}]

write_text(st, root, long) ==
    Serialized(st, root, "text", <<>>,
               [node \in 1..st.used |-> write_text_body(st, node, long)], <<>>)

\* The characters that saxutils.escape replaces, with the entities given.
XmlEscape(c, entities) ==
    CASE c = "&" -> <<"&", "a", "m", "p", ";">>
      [] c = "<" -> <<"&", "l", "t", ";">>
      [] c = ">" -> <<"&", "g", "t", ";">>
      [] c = "\"" /\ "\"" \in entities -> <<"&", "q", "u", "o", "t", ";">>
      [] c = "'" /\ "'" \in entities -> <<"&", "a", "p", "o", "s", ";">>
      [] OTHER -> <<c>>

\* saxutils.escape(data, entities)
escape_sax(chars, entities) ==
    Join([i \in 1..Len(chars) |-> XmlEscape(chars[i], entities)])

\* ord(character) of the characters below 32, of Del and of EAcute
Ord(c) ==
    CASE c = "\t" -> 9
      [] c = "\n" -> 10
      [] c = Esc -> 27
      [] c = Del -> 127
      [] c = EAcute -> 233
      [] OTHER -> 64

\* escape() of write_pdftk: a character below 32 or from 127 on becomes
\* the entity of its number.
escape_pdftk(chars) ==
    Join([i \in 1..Len(chars) |->
            IF Ord(chars[i]) < 32 \/ Ord(chars[i]) >= 127
            THEN <<"&", "#">> \o Digits(Ord(chars[i])) \o <<";">>
            ELSE XmlEscape(chars[i], {"\""})])

\* The body of the loop of write_pdftk.  The three lines of a node are one
\* record.
write_pdftk_body(st, node) ==
    LET a == st.attr[node]
        said == [c \in {"action", "formatting", "destination", "closed"} |->
                   CASE c = "action" -> ~Is(a.action, <<"G", "o", "T", "o">>)
                     [] c = "formatting" ->
                          a.color.t # "NoneType" \/ Truth(a.bold) \/ Truth(a.italic)
                     [] c = "destination" -> a.destination.t # "NoneType"
                     [] c = "closed" -> ~Truth(a.open)]
    IN [exc |-> a.title.t = "NoneType",
        record |-> [kind |-> "record",
                    title |-> escape_pdftk(strip(a.title.v)),
                    level |-> Digits(st._level[node]),
                    page |-> IF a.page.t = "NoneType" THEN <<"0">> ELSE Str(a.page)],
        warnings |-> {c \in DOMAIN said : said[c]}]

write_pdftk(st, root) ==
    Serialized(st, root, "pdftk", <<>>,
               [node \in 1..st.used |-> write_pdftk_body(st, node)], <<>>)

\* The two hexadecimal digits of a number below 256, in upper case.
Hex2(n) ==
    LET d == <<"0", "1", "2", "3", "4", "5", "6", "7", "8", "9",
               "A", "B", "C", "D", "E", "F">>
    IN <<d[(n \div 16) + 1], d[(n % 16) + 1]>>

\* ord(c) for the characters that escape() of write_csv replaces; every
\* other character of the model is a printable one.
OrdCsv(c) ==
    CASE c = "\\" -> 92
      [] c = ";" -> 59
      [] c = "\"" -> 34
      [] c = "'" -> 39
      [] OTHER -> Ord(c)

\* escape() of write_csv that writes a backslash as it is.
escape_csv_raw_backslash(chars) ==
    Join([i \in 1..Len(chars) |->
            IF Ord(chars[i]) < 32 \/ chars[i] \in {";", "\"", "'"}
            THEN <<"\\">> \o Hex2(OrdCsv(chars[i]))
            ELSE <<chars[i]>>])

\* escape() of write_csv: a character below 32 and each of \ ; " ' becomes
\* a backslash and the two hex digits of its code.
escape_csv(chars) ==
    Join([i \in 1..Len(chars) |->
            IF Ord(chars[i]) < 32 \/ chars[i] \in {"\\", ";", "\"", "'"}
            THEN <<"\\">> \o Hex2(OrdCsv(chars[i]))
            ELSE <<chars[i]>>])

\* key="value" and a blank, as write_csv appends it to moreopts_string
Quoted(key, value) == key \o <<"=", "\"">> \o value \o <<"\"", " ">>

\* The body of the loop of write_csv.
write_csv_body(st, node) ==
    LET a == st.attr[node]
        goto == Is(a.action, <<"G", "o", "T", "o">>)
        hasdest == a.destination.t # "NoneType" /\ ~Is(a.destination, <<>>)
        dest == IF hasdest THEN <<" ">> \o Str(a.destination) ELSE <<>>
        more == \/ ~goto
                \/ a.file.t # "NoneType"
                \/ a.uri.t # "NoneType"
                \/ a.color.t # "NoneType"
        moreopts_string ==
            (IF ~goto /\ a.action.t # "NoneType"
             THEN <<"A", "c", "t", "i", "o", "n", "=", "\"">> \o Str(a.action) \o <<"\"", " ">>
                    \o (IF Is(a.action, <<"G", "o", "T", "o">>) \/ Is(a.action, <<"G", "o", "T", "o", "R">>)
                        THEN <<"P", "a", "g", "e", "=", "\"">> \o Str(a.page) \o dest \o <<"\"", " ">>
                        ELSE <<>>)
             ELSE <<>>)
              \o (IF a.file.t # "NoneType" THEN Quoted(<<"F", "i", "l", "e">>, a.file.v) ELSE <<>>)
              \o (IF a.uri.t # "NoneType" THEN Quoted(<<"U", "R", "I">>, a.uri.v) ELSE <<>>)
              \o (IF a.color.t # "NoneType" THEN Quoted(<<"C", "o", "l", "o", "r">>, a.color.v) ELSE <<>>)
        escaped_moreopts == escape_csv(strip(moreopts_string))
    IN [exc |-> a.title.t = "NoneType",
        record |-> [kind |-> "record",
                    depth |-> Digits(st._level[node]),
                    flags |-> (IF Truth(a.open) THEN <<"O">> ELSE <<>>)
                                \o (IF Truth(a.bold) THEN <<"B">> ELSE <<>>)
                                \o (IF Truth(a.italic) THEN <<"I">> ELSE <<>>),
                    title |-> escape_csv(a.title.v),
                    page |-> IF goto THEN Str(a.page) ELSE <<"0">>,
                    destination |-> IF goto /\ hasdest THEN PyUnicode(dest) ELSE PyNone,
                    moreopts |-> IF more /\ escaped_moreopts # <<>>
                                 THEN PyUnicode(<<";">> \o escaped_moreopts) ELSE PyNone],
        warnings |-> {}]

write_csv(st, root) ==
    Serialized(st, root, "csv", <<>>,
               [node \in 1..st.used |-> write_csv_body(st, node)], <<>>)

\* _latex_special_chars.get(c, c), but for the backquote, which no string
\* of the model holds
LatexSpecial(c) ==
    CASE c = "$" -> <<"\\", "$">>
      [] c = "%" -> <<"\\", "%">>
      [] c = "&" -> <<"\\", "&">>
      [] c = "#" -> <<"\\", "#">>
      [] c = "_" -> <<"\\", "_">>
      [] c = "{" -> <<"\\", "{">>
      [] c = "}" -> <<"\\", "}">>
      [] c = "[" -> <<"{", "[", "}">>
      [] c = "]" -> <<"{", "]", "}">>
      [] c = "\"" -> <<"{", "'", "'", "}">>
      [] c = "\\" -> <<"\\", "t", "e", "x", "t", "b", "a", "c", "k", "s", "l", "a", "s", "h", "{", "}">>
      [] c = "~" -> <<"\\", "t", "e", "x", "t", "a", "s", "c", "i", "i", "t", "i", "l", "d", "e", "{", "}">>
      [] c = "<" -> <<"\\", "t", "e", "x", "t", "l", "e", "s", "s", "{", "}">>
      [] c = ">" -> <<"\\", "t", "e", "x", "t", "g", "r", "e", "a", "t", "e", "r", "{", "}">>
      [] c = "^" -> <<"\\", "t", "e", "x", "t", "a", "s", "c", "i", "i", "c", "i", "r", "c", "u", "m", "{", "}">>
      [] OTHER -> <<c>>

escape_latex(chars) == Join([i \in 1..Len(chars) |-> LatexSpecial(chars[i])])

\* separator.join(parts)
RECURSIVE JoinWith(_, _)
JoinWith(separator, parts) ==
    IF parts = <<>> THEN <<>>
    ELSE IF Len(parts) = 1 THEN parts[1]
    ELSE parts[1] \o separator \o JoinWith(separator, Tail(parts))

\* chars.split(): the words between the runs of whitespace
RECURSIVE split(_)
split(chars) ==
    LET s == strip(chars)
        blank == {i \in 1..Len(s) : s[i] \in Whitespace}
        first == CHOOSE i \in blank : \A j \in blank : i <= j
    IN IF s = <<>> THEN <<>>
       ELSE IF blank = {} THEN <<s>>
       ELSE <<SubSeq(s, 1, first - 1)>> \o split(SubSeq(s, first + 1, Len(s)))

\* The lines that write_latex writes before the loop (title, author and
\* pdf are None, as main calls it) and after it.
LatexBefore ==
    <<OtherLine("\\documentclass{article}"), OtherLine("\\usepackage[utf8]{inputenc}"),
      OtherLine("\\usepackage{pdfpages}"), OtherLine("\\usepackage["),
      OtherLine("  pdfpagelabels=true,"), OtherLine("]{hyperref}"),
      OtherLine("\\usepackage{bookmark}"), OtherLine(""),
      OtherLine("\\begin{document}"), OtherLine(""),
      OtherLine("%\\pagenumbering{roman}"), OtherLine("%\\setcounter{page}{1}"),
      OtherLine("%\\includepdf[pages=-]{file.pdf}"), OtherLine("")>>

LatexAfter == <<OtherLine(""), OtherLine("\\end{document}")>>

\* The body of the loop of write_latex.  For an action other than GoTo,
\* GoToR and URI it writes the indentation and the end of the line only.
write_latex_body(st, node) ==
    LET a == st.attr[node]
        options ==
            (IF Truth(a.bold) THEN <<<<"b", "o", "l", "d">>>> ELSE <<>>)
              \o (IF Truth(a.italic) THEN <<<<"i", "t", "a", "l", "i", "c">>>> ELSE <<>>)
              \o (IF a.color.t # "NoneType"
                  THEN <<<<"c", "o", "l", "o", "r", "=", "[", "r", "g", "b", "]", "{">> \o JoinWith(<<",">>, split(a.color.v)) \o <<"}">>>>
                  ELSE <<>>)
              \o (IF a.destination.t # "NoneType"
                  THEN <<<<"v", "i", "e", "w", "=", "{">> \o Str(a.destination) \o <<"}">>>> ELSE <<>>)
        joined == JoinWith(<<",", " ">>, options)
        optstr == IF Len(joined) > 0 THEN joined \o <<",", " ">> ELSE joined
        level == <<"l", "e", "v", "e", "l", "=">> \o Digits(st._level[node] - 1) \o <<"]">>
        named == a.named.t # "NoneType"
        goto == Is(a.action, <<"G", "o", "T", "o">>)
        gotor == Is(a.action, <<"G", "o", "T", "o", "R">>)
        uri == Is(a.action, <<"U", "R", "I">>)
        escapes == (goto /\ ~named) \/ gotor \/ uri
        main == CASE goto /\ ~named -> <<"p", "a", "g", "e", "=">> \o Str(a.page) \o <<",">>
                  [] goto /\ named -> <<"d", "e", "s", "t", "=">> \o Str(a.named) \o <<",">>
                  [] gotor /\ ~named ->
                       <<"g", "o", "t", "o", "r", "=">> \o Str(a.file) \o <<",", " ", "p", "a", "g", "e", "=">> \o Str(a.page) \o <<",">>
                  [] gotor /\ named ->
                       <<"g", "o", "t", "o", "r", "=">> \o Str(a.file) \o <<",", " ", "d", "e", "s", "t", "=">> \o Str(a.named) \o <<",">>
                  [] uri -> <<"u", "r", "i", "=">> \o Str(a.uri) \o <<",">>
                  [] OTHER -> <<>>
        indent == Times(<<" ", " ", " ", " ">>, st._level[node] - 1)
    IN [exc |-> escapes /\ a.title.t = "NoneType",
        record |-> IF goto \/ gotor \/ uri
                   THEN [kind |-> "record",
                         indent |-> indent,
                         options |-> <<"[">> \o optstr \o main \o level,
                         title |-> IF escapes THEN escape_latex(a.title.v)
                                   ELSE Str(a.title)]
                   ELSE [kind |-> "other", text |-> ""],
        warnings |-> IF Is(a.action, <<"L", "a", "u", "n", "c", "h">>) THEN {"launch"} ELSE {}]

write_latex(st, root) ==
    Serialized(st, root, "latex", LatexBefore,
               [node \in 1..st.used |-> write_latex_body(st, node)], LatexAfter)

\* chars.lower()
Lower(chars) ==
    LET upper == <<"A", "B", "C", "D", "E", "F", "G", "H", "I", "J", "K", "L", "M", "N", "O", "P", "Q", "R", "S", "T", "U", "V", "W", "X", "Y", "Z">>
        lower == <<"a", "b", "c", "d", "e", "f", "g", "h", "i", "j", "k", "l", "m", "n", "o", "p", "q", "r", "s", "t", "u", "v", "w", "x", "y", "z">>
        low(c) == IF \E k \in 1..26 : upper[k] = c
                  THEN lower[CHOOSE k \in 1..26 : upper[k] = c] ELSE c
    IN [i \in 1..Len(chars) |-> low(chars[i])]

\* What a serializer that builds the text by recursion returns: it writes
\* the text at once, and nothing when str_bm raises.
Recursed(st, format, r) ==
    [st |-> [st EXCEPT !.exc = r.exc, !.warned = 0],
     file |-> [format |-> format, events |-> IF r.exc THEN <<>> ELSE r.events]]

\* str_bm of the children of node one after the other.
Children(st, node, str_bm) ==
    LET cs == st._children[node]
        res == [i \in 1..Len(cs) |-> str_bm[cs[i]]]
    IN [exc |-> \E i \in 1..Len(cs) : res[i].exc,
        events |-> Join([i \in 1..Len(cs) |-> res[i].events])]

\* saxutils.escape(value) of an attribute that is not None: the text, or
\* an AttributeError when the value is no string.
Escaped(x) ==
    IF x.t = "NoneType" THEN [exc |-> FALSE, value |-> PyNone]
    ELSE IF IsString(x)
         THEN [exc |-> FALSE, value |-> PyUnicode(escape_sax(x.v, {"\"", "'"}))]
         ELSE [exc |-> TRUE, value |-> PyNone]

\* The element of a node that is not the root in write_xml.str_bm: the
\* attributes of the tag <Title ...>, each None when it is not written,
\* and the text behind the tag.
xml_element(st, node) ==
    LET a == st.attr[node]
        dest == a.destination
        style == JoinWith(<<" ">>, (IF Truth(a.italic) THEN <<<<"i", "t", "a", "l", "i", "c">>>> ELSE <<>>)
                                 \o (IF Truth(a.bold) THEN <<<<"b", "o", "l", "d">>>> ELSE <<>>))
        uri == Escaped(a.uri)
        file_ == Escaped(a.file)
        named == Escaped(a.named)
        namedn == Escaped(a.namedn)
        title == IF a.title.t = "NoneType" THEN [exc |-> TRUE, value |-> PyNone]
                 ELSE Escaped(a.title)
    IN [exc |-> uri.exc \/ file_.exc \/ named.exc \/ namedn.exc \/ title.exc,
        record |->
          [kind |-> "record",
           indent |-> Times(<<" ", " ">>, st._level[node]),
           attrs |->
             [Open |-> IF ~Truth(a.open) THEN PyUnicode(Lower(Str(a.open))) ELSE PyNone,
              Action |-> IF a.action.t # "NoneType" THEN PyUnicode(Str(a.action))
                         ELSE PyNone,
              Page |-> IF Is(a.action, <<"G", "o", "T", "o">>) \/ Is(a.action, <<"G", "o", "T", "o", "R">>)
                       THEN PyUnicode(Str(a.page)
                              \o (IF dest.t # "NoneType" /\ ~Is(dest, <<>>)
                                  THEN <<" ">> \o Str(dest) ELSE <<>>))
                       ELSE PyNone,
              Color |-> IF a.color.t # "NoneType" THEN PyUnicode(Str(a.color))
                        ELSE PyNone,
              Style |-> IF style # <<>> THEN PyUnicode(style) ELSE PyNone,
              URI |-> uri.value,
              File |-> file_.value,
              NewWindow |-> IF a.newwindow.t # "NoneType"
                            THEN PyUnicode(Str(a.newwindow)) ELSE PyNone,
              Named |-> named.value,
              NamedN |-> namedn.value],
           title |-> title.value.v,
           newline |-> has_children(st, node)]]

\* write_xml.str_bm
RECURSIVE xml_str_bm(_, _)
xml_str_bm(st, node) ==
    LET cs == Children(st, node,
                       [child \in Range(st._children[node]) |->
                          xml_str_bm(st, child)])
    IN IF is_root(st, node)
       THEN [exc |-> cs.exc,
             events |-> <<OtherLine("<?xml version=\"1.0\" encoding=\"UTF-8\"?>"),
                          OtherLine("<Bookmark>")>>
                          \o cs.events \o <<OtherLine("</Bookmark>")>>]
       ELSE LET e == xml_element(st, node)
            IN [exc |-> e.exc \/ cs.exc,
                events |-> <<e.record>> \o cs.events \o <<[kind |-> "end"]>>]

write_xml(st, root) == Recursed(st, "xml", xml_str_bm(st, root))

\* The list item of a node that is not the root in write_html.str_bm: the
\* href of the link and the text of the link.
html_item(st, node) ==
    LET a == st.attr[node]
        named == a.named.t # "NoneType"
        quotes == {"\"", "'"}
        file_ == Escaped(a.file)
        href ==
            CASE Is(a.action, <<"G", "o", "T", "o">>) ->
                   IF named THEN <<"#">> \o escape_sax(Str(a.named), quotes)
                   ELSE <<"#">> \o Str(a.page)
              [] Is(a.action, <<"G", "o", "T", "o", "R">>) ->
                   IF named
                   THEN escape_sax(Str(a.file), quotes) \o <<"#">>
                          \o escape_sax(Str(a.named), quotes)
                   ELSE file_.value.v \o <<"#">> \o Str(a.page)
              [] Is(a.action, <<"U", "R", "I">>) -> escape_sax(Str(a.uri), quotes)
              [] OTHER -> <<>>
    IN [exc |-> \/ a.title.t = "NoneType"
                \/ (Is(a.action, <<"G", "o", "T", "o", "R">>) /\ ~named
                      /\ (a.file.t = "NoneType" \/ file_.exc)),
        record |-> [kind |-> "record",
                    indent |-> Times(<<" ", " ">>, st._level[node]),
                    href |-> href,
                    title |-> escape_sax(a.title.v, {}),
                    newline |-> has_children(st, node)]]

\* write_html.str_bm
RECURSIVE html_str_bm(_, _)
html_str_bm(st, node) ==
    LET cs == Children(st, node,
                       [child \in Range(st._children[node]) |->
                          html_str_bm(st, child)])
    IN IF is_root(st, node)
       THEN [exc |-> cs.exc,
             events |-> <<OtherLine("<html>"), OtherLine("<body>"), OtherLine("<ul>")>>
                          \o cs.events
                          \o <<OtherLine("</ul>"), OtherLine("</body>"),
                               OtherLine("</html>")>>]
       ELSE LET e == html_item(st, node)
            IN [exc |-> e.exc \/ cs.exc,
                events |-> <<e.record>>
                             \o (IF has_children(st, node)
                                 THEN <<OtherLine("<ul>")>> \o cs.events
                                        \o <<OtherLine("</ul>")>>
                                 ELSE <<>>)
                             \o <<[kind |-> "end"]>>]

write_html(st, root) == Recursed(st, "html", html_str_bm(st, root))

\* The three octal digits of a byte.
Oct3(n) ==
    LET d == <<"0", "1", "2", "3", "4", "5", "6", "7">>
    IN <<d[(n \div 64) + 1], d[((n \div 8) % 8) + 1], d[(n % 8) + 1]>>

\* character.encode('utf8') for a character from 127 on and below 2048
Utf8(n) == IF n < 128 THEN <<n>> ELSE <<192 + (n \div 64), 128 + (n % 64)>>

\* escape() of write_djvused: "" for None; a character below 32 or from
\* 127 on becomes the octal escapes of its UTF-8 bytes, and a double quote
\* gets a backslash.
escape_djvused(x) ==
    IF x.t = "NoneType" THEN <<>>
    ELSE Join([i \in 1..Len(x.v) |->
                 LET c == x.v[i]
                     bytes == Utf8(Ord(c))
                 IN IF Ord(c) < 32 \/ Ord(c) >= 127
                    THEN Join([k \in 1..Len(bytes) |-> <<"\\">> \o Oct3(bytes[k])])
                    ELSE IF c = "\"" THEN <<"\\", "\"">> ELSE <<c>>])

\* The two lines of a node that is not the root in write_djvused.str_bm:
\* the title and the target.
djvused_entry(st, node) ==
    LET a == st.attr[node]
        target ==
            CASE Is(a.action, <<"G", "o", "T", "o">>) -> PyUnicode(<<"#">> \o Str(a.page))
              [] Is(a.action, <<"G", "o", "T", "o", "R">>) ->
                   PyUnicode(Str(a.file) \o <<"#">> \o Str(a.page))
              [] Is(a.action, <<"U", "R", "I">>) -> a.uri
              [] OTHER -> PyUnicode(<<>>)
    IN [kind |-> "record",
        indent |-> Times(<<" ">>, st._level[node]),
        title |-> escape_djvused(a.title),
        target |-> escape_djvused(target)]

\* write_djvused.str_bm
RECURSIVE djvused_str_bm(_, _)
djvused_str_bm(st, node) ==
    LET cs == Children(st, node,
                       [child \in Range(st._children[node]) |->
                          djvused_str_bm(st, child)])
    IN [exc |-> FALSE,
        events |-> <<IF is_root(st, node) THEN [kind |-> "start"]
                     ELSE djvused_entry(st, node)>>
                     \o cs.events \o <<[kind |-> "close"]>>]

write_djvused(st, root) == Recursed(st, "djvused", djvused_str_bm(st, root))

----------------------------------------------------------------------------
\* A caller that builds a tree, sets attributes of its nodes and writes it
\* with one of the serializers, as main does with the tree it has read.

\* The title of a node: a letter of its own.
Letter(node) == <<"R", "A", "B", "C", "D", "E", "F", "G">>[node]

\* The assignments by which a caller makes a node one of a kind.
Kinds ==
    {"fresh", "GoTo", "GoTo Fit", "GoToR", "GoToR no file", "GoToR Fit", "URI",
     "Launch", "color", "bold", "italic", "closed", "named", "newwindow",
     "blank before title"}

Kind(kind, node) ==
    LET title == To("title", PyUnicode(<<Letter(node)>>))
        page == To("page", PyInt(2))
        goto == <<To("action", PyUnicode(<<"G", "o", "T", "o">>)), title, page>>
        gotor == <<To("action", PyUnicode(<<"G", "o", "T", "o", "R">>)), title, page>>
        file_ == To("file", PyUnicode(<<"F">>))
        fit == To("destination", PyUnicode(<<"F", "i", "t">>))
    IN CASE kind = "fresh" -> <<>>
         [] kind = "GoTo" -> goto
         [] kind = "GoTo Fit" -> goto \o <<fit>>
         [] kind = "GoToR" -> gotor \o <<file_>>
         [] kind = "GoToR no file" -> gotor
         [] kind = "GoToR Fit" -> gotor \o <<file_, fit>>
         [] kind = "URI" -> <<To("action", PyUnicode(<<"U", "R", "I">>)), title,
                              To("uri", PyUnicode(<<"U">>))>>
         [] kind = "Launch" -> <<To("action", PyUnicode(<<"L", "a", "u", "n", "c", "h">>)), title, file_>>
         [] kind = "color" -> goto \o <<To("color", PyUnicode(<<"0", " ", "0", ".", "5", " ", "0", ".", "5">>))>>
         [] kind = "bold" -> goto \o <<To("bold", PyBool(TRUE))>>
         [] kind = "italic" -> goto \o <<To("italic", PyBool(TRUE))>>
         [] kind = "closed" -> goto \o <<To("open", PyBool(FALSE))>>
         [] kind = "named" -> goto \o <<To("named", PyUnicode(<<"N">>))>>
         [] kind = "newwindow" -> gotor \o <<file_, To("newwindow", PyBool(TRUE))>>
         [] kind = "blank before title" ->
              <<To("action", PyUnicode(<<"G", "o", "T", "o">>)),
                To("title", PyUnicode(<<" ">> \o <<Letter(node)>>)), page>>

\* The assignments of kinds[node] to every node from node on.
RECURSIVE Made(_, _, _)
Made(st, kinds, node) ==
    IF node > st.used THEN st
    ELSE Made(Assignments(st, node, Kind(kinds[node], node), 1), kinds, node + 1)

\* The trees of at most MaxBuild nodes with root 1 whose nodes are of any
\* kinds.
Trees ==
    LET shapes == {s \in Built(MaxBuild) : \A n \in 2..s.used : s._parent[n] # None}
    IN {[Made(s, [n \in 1..s.used |-> IF n = 1 THEN "fresh" ELSE kinds[n]], 2)
           EXCEPT !.warned = 0] :
          s \in shapes, kinds \in [1..MaxBuild -> Kinds]}

Writers == {"text", "pdftk", "csv", "latex", "xml", "html", "djvused"}

\* to_handler(bm, outfilename), and to_handler(bm, outfilename, text_long)
\* for write_text
Written(st, root, format, long) ==
    CASE format = "text" -> write_text(st, root, long)
      [] format = "pdftk" -> write_pdftk(st, root)
      [] format = "csv" -> write_csv(st, root)
      [] format = "latex" -> write_latex(st, root)
      [] format = "xml" -> write_xml(st, root)
      [] format = "html" -> write_html(st, root)
      [] format = "djvused" -> write_djvused(st, root)

OpWrite(root, format, long, exc) ==
    [op |-> "write", self |-> root, other |-> None, i |-> 0, ret |-> None,
     exc |-> exc, format |-> format, long |-> long]

\* One call of a serializer for the tree of root.
Write(root, format, long) ==
    /\ file = NoFile
    /\ is_root(Cur, root)
    /\ format = "text" \/ ~long
    /\ \E w \in {Written(Cur, root, format, long)} :
           /\ HeapNext([w.st EXCEPT !.exc = FALSE], MaxHeap)
           /\ file' = w.file
           /\ last' = OpWrite(root, format, long, w.st.exc)
    /\ UNCHANGED <<ops, outer, inner, prev, reader>>

----------------------------------------------------------------------------
\* Reading a written file: read_xml, read_html, read_text, read_pdftk,
\* read_csv, read_latex and read_djvused on the lines that a serializer has
\* written.  A reader ends in one of three ways: it returns the root of the
\* tree it has built, it ends the program with die(), or it is left by an
\* exception.

DigitChars == <<"0", "1", "2", "3", "4", "5", "6", "7", "8", "9">>

\* The number that a sequence of digits denotes.
RECURSIVE Number(_)
Number(digits) ==
    IF digits = <<>> THEN 0
    ELSE 10 * Number(SubSeq(digits, 1, Len(digits) - 1))
           + (CHOOSE k \in 0..9 : DigitChars[k + 1] = digits[Len(digits)])

\* int(chars) of Python: the number, or a ValueError when chars without the
\* whitespace around it is not a sign and digits or digits alone.
int(chars) ==
    LET s == strip(chars)
        signed == s # <<>> /\ s[1] \in {"+", "-"}
        digits == IF signed THEN Tail(s) ELSE s
        ok == digits # <<>> /\ \A i \in 1..Len(digits) : digits[i] \in Digit[2]
    IN [exc |-> ~ok,
        value |-> IF ~ok THEN 0
                  ELSE IF signed /\ s[1] = "-" THEN 0 - Number(digits)
                  ELSE Number(digits)]

\* chars.find(sub): the index of the first occurrence, counted from 0, or
\* -1 when there is none.
find(chars, sub) ==
    LET at == {i \in 1..(Len(chars) - Len(sub) + 1) :
                 SubSeq(chars, i, i + Len(sub) - 1) = sub}
    IN IF at = {} THEN -1 ELSE (CHOOSE i \in at : \A j \in at : i <= j) - 1

\* The bound i of a slice of a sequence of length n.
Clip(n, i) ==
    IF i < 0 THEN (IF n + i < 0 THEN 0 ELSE n + i) ELSE IF i > n THEN n ELSE i

\* chars[a:b]
Slice(chars, a, b) ==
    LET from == Clip(Len(chars), a)
        to == Clip(Len(chars), b)
    IN IF to <= from THEN <<>> ELSE SubSeq(chars, from + 1, to)

\* chars[a:]
SliceFrom(chars, a) == Slice(chars, a, Len(chars))

\* chars.replace(old, new) for a non-empty old
RECURSIVE Replace(_, _, _)
Replace(chars, old, new) ==
    IF chars = <<>> THEN <<>>
    ELSE IF IsPrefix(old, chars)
         THEN new \o Replace(SliceFrom(chars, Len(old)), old, new)
         ELSE <<chars[1]>> \o Replace(Tail(chars), old, new)

\* The text that the XML parser passes on for the text of the file: the
\* five entities of XML stand for their characters.
RECURSIVE Parsed(_)
Parsed(chars) ==
    LET entities == <<[name |-> <<"&", "a", "m", "p", ";">>, char |-> "&"], [name |-> <<"&", "l", "t", ";">>, char |-> "<"],
                      [name |-> <<"&", "g", "t", ";">>, char |-> ">"], [name |-> <<"&", "q", "u", "o", "t", ";">>, char |-> "\""],
                      [name |-> <<"&", "a", "p", "o", "s", ";">>, char |-> "'"]>>
        hit == {k \in 1..Len(entities) : IsPrefix(entities[k].name, chars)}
        k == CHOOSE k \in hit : TRUE
    IN IF chars = <<>> THEN <<>>
       ELSE IF hit = {} THEN <<chars[1]>> \o Parsed(Tail(chars))
       ELSE <<entities[k].char>> \o Parsed(SliceFrom(chars, Len(entities[k].name)))

\* What a reader does with a file: the heap after it, the root of its
\* tree, and how it ended.
Outcome(st, root, status) ==
    [st |-> [st EXCEPT !.exc = FALSE], root |-> root, status |-> status]

\* An exception that a step raises when cond holds: the steps behind it are
\* not made.
Raise(st, cond) == IF cond THEN [st EXCEPT !.exc = TRUE] ELSE st

\* page = attrs["Page"] of docHandler.startElement of read_xml, when the
\* element has the attribute: the text behind the first blank is the
\* destination and the text before it is the page; index() raises a
\* ValueError when there is no blank.
xml_page(st, node, page) ==
    LET blank == find(page.v, <<" ">>)
        number == int(Slice(page.v, 0, blank))
    IN IF page = PyNone THEN st
       ELSE Assignments(
                Raise(Assignments(Raise(st, blank < 0), node,
                          <<To("destination", PyUnicode(SliceFrom(page.v, blank + 1)))>>,
                          1),
                      number.exc),
                node, <<To("page", PyInt(number.value))>>, 1)

\* docHandler.startElement of read_xml for a Title element: the heap with
\* the new node, and whether an exception or die() ended the parsing.
xml_startElement(st, current_node, attrs) ==
    LET node == st.used + 1
        get(name) == IF attrs[name] = PyNone THEN PyNone
                     ELSE PyUnicode(Parsed(attrs[name].v))
        style == IF attrs.Style = PyNone THEN <<>> ELSE Lower(get("Style").v)
        open == IF attrs.Open = PyNone THEN <<"t", "r", "u", "e">> ELSE Lower(get("Open").v)
    IN Assignments(
           xml_page(__setattr__(newchild(Bookmark(st), current_node, node), node,
                                "action", get("Action")),
                    node, get("Page")),
           node,
           <<To("named", get("Named")), To("namedn", get("NamedN")),
             To("file", get("File")), To("newwindow", get("NewWindow")),
             To("uri", get("URI"))>>
             \o (IF find(style, <<"i", "t", "a", "l", "i", "c">>) >= 0 THEN <<To("italic", PyBool(TRUE))>>
                 ELSE <<>>)
             \o (IF find(style, <<"b", "o", "l", "d">>) >= 0 THEN <<To("bold", PyBool(TRUE))>>
                 ELSE <<>>)
             \o <<To("color", get("Color"))>>
             \o (IF open = <<"f", "a", "l", "s", "e">> THEN <<To("open", PyBool(FALSE))>> ELSE <<>>),
           1)

\* docHandler.characters for the text between two tags, when no exception
\* has ended the parsing
characters(st, node, content) ==
    IF st.exc \/ content = <<>> THEN st
    ELSE __setattr__(st, node, "title", PyUnicode(st.attr[node].title.v \o content))

\* docHandler.endElement of read_xml for a Title element
xml_endElement(st, node) ==
    LET title == st.attr[node].title
        linebreak == find(title.v, <<"\n">>)
    IN IF linebreak >= 0
       THEN __setattr__(st, node, "title", PyUnicode(Slice(title.v, 0, linebreak)))
       ELSE st

\* parser.parse(infilename) of read_xml: the handler is called for the
\* tags and the texts in the order of the file.
RECURSIVE xml_parse(_, _, _, _)
xml_parse(st, current_node, events, i) ==
    IF i > Len(events) \/ st.exc THEN st
    ELSE LET e == events[i]
         IN CASE e.kind = "record" ->
                   LET text == Parsed(e.title)
                                 \o (IF e.newline
                                     THEN <<"\n">> \o (IF i < Len(events)
                                                        /\ events[i + 1].kind = "record"
                                                    THEN events[i + 1].indent ELSE <<>>)
                                     ELSE <<>>)
                   IN xml_parse(characters(xml_startElement(st, current_node, e.attrs),
                                           st.used + 1, text),
                                st.used + 1, events, i + 1)
              [] e.kind = "end" ->
                   xml_parse(xml_endElement(st, current_node),
                             st._parent[current_node], events, i + 1)
              [] OTHER -> xml_parse(st, current_node, events, i + 1)

\* except: warn(...); die(): every exception of the parsing ends the
\* program.
OrDied(parsed, root) ==
    IF parsed.exc THEN Outcome(warn([parsed EXCEPT !.exc = FALSE], TRUE), root, "died")
    ELSE Outcome(parsed, root, "returned")

\* read_xml
read_xml(st, events) == OrDied(xml_parse(Bookmark(st), st.used + 1, events, 1), st.used + 1)

\* The greatest number of a non-empty set of numbers.
Greatest(S) == CHOOSE x \in S : \A y \in S : y <= x

\* The pattern that matches the empty string only.
Empty == <<"seq", <<>>>>

\* The match of the pattern pre(group)post that begins at position i of
\* s, where the quantifiers of pre and of group are greedy: whether there
\* is one, the position at which the group begins, the text of the group
\* and the position behind the group.
MatchAt(pre, group, post, s, i) ==
    LET from == {j \in Ends(pre, s, i) :
                   \E k \in Ends(group, s, j) : Ends(post, s, k) # {}}
        j == Greatest(from)
        to == {k \in Ends(group, s, j) : Ends(post, s, k) # {}}
    IN IF from = {} THEN [found |-> FALSE, begin |-> i, group |-> <<>>, end |-> i]
       ELSE [found |-> TRUE, begin |-> j, group |-> SubSeq(s, j, Greatest(to) - 1),
             end |-> Greatest(to)]

\* int(value) for a value that is a number or a string
int_of(x) == IF IsString(x) THEN int(x.v) ELSE [exc |-> FALSE, value |-> Num(x)]

\* node.page = int(node.page), with die() for a ValueError: the heap, exc
\* set when the reader does not go on.
PageToInt(st, node) ==
    LET number == int_of(st.attr[node].page)
    IN IF st.exc THEN st
       ELSE Assignments(Raise(st, number.exc), node, <<To("page", PyInt(number.value))>>, 1)

\* docHandler.startElement of read_html for the element a of node: the
\* first of the five patterns that matches the link decides.
html_startElement(st, node, link) ==
    LET hash == Lit("#")
        digits == <<"plus", Digit>>
        any == <<"plus", <<"dot">>>>
        goto == MatchAt(hash, digits, Empty, link, 1)
        gotor == MatchAt(Empty, any, <<"seq", <<hash, digits>>>>, link, 1)
        goton == MatchAt(hash, any, Empty, link, 1)
        gotonr == MatchAt(Empty, any, <<"seq", <<hash, any>>>>, link, 1)
        uri == MatchAt(Empty, any, Empty, link, 1)
        GoToR == PyStr(<<"G", "o", "T", "o", "R">>)
        todo ==
            IF goto.found
            THEN <<To("action", GoTo), To("page", PyUnicode(goto.group))>>
            ELSE IF gotor.found
            THEN <<To("action", GoToR), To("file", PyUnicode(gotor.group)),
                   To("page", PyUnicode(MatchAt(hash, digits, Empty, link,
                                                gotor.end).group))>>
            ELSE IF goton.found
            THEN <<To("action", GoTo), To("named", PyUnicode(goton.group))>>
            ELSE IF gotonr.found
            THEN <<To("action", GoToR), To("file", PyUnicode(gotonr.group)),
                   To("named", PyUnicode(MatchAt(hash, any, Empty, link,
                                                 gotonr.end).group))>>
            ELSE IF uri.found
            THEN <<To("action", PyStr(<<"U", "R", "I">>)), To("uri", PyUnicode(uri.group))>>
            ELSE <<>>
    IN IF goto.found \/ gotor.found
       THEN PageToInt(Assignments(st, node, todo, 1), node)
       ELSE Assignments(st, node, todo, 1)

\* parser.parse(infilename) of read_html.  The text behind </a> up to the
\* next tag belongs to the title as well, for open_element is still "a".
RECURSIVE html_parse(_, _, _, _)
html_parse(st, current_node, events, i) ==
    IF i > Len(events) \/ st.exc THEN st
    ELSE LET e == events[i]
         IN CASE e.kind = "record" ->
                   LET node == st.used + 1
                       text == Parsed(e.title)
                                 \o (IF e.newline THEN <<"\n">> \o e.indent ELSE <<>>)
                   IN html_parse(
                          characters(html_startElement(
                                         newchild(Bookmark(st), current_node, node),
                                         node, Parsed(e.href)),
                                     node, text),
                          node, events, i + 1)
              [] e.kind = "end" ->
                   html_parse(__setattr__(st, current_node, "title",
                                  PyUnicode(strip(st.attr[current_node].title.v))),
                              st._parent[current_node], events, i + 1)
              [] OTHER -> html_parse(st, current_node, events, i + 1)

\* read_html
read_html(st, events) ==
    OrDied(html_parse(Bookmark(st), st.used + 1, events, 1), st.used + 1)

\* chr(n) and unichr(n) of the numbers that the serializers write in an
\* escape: the character with the number n.
Chr(n) ==
    LET printable == <<" ", "!", "\"", "#", "$", "%", "&", "'", "(", ")", "*", "+", ",", "-", ".", "/", "0", "1", "2", "3", "4", "5", "6", "7", "8", "9", ":", ";", "<", "=", ">", "?", "@", "A", "B", "C", "D", "E", "F", "G", "H", "I", "J", "K", "L", "M", "N", "O", "P", "Q", "R", "S", "T", "U", "V", "W", "X", "Y", "Z", "[", "\\", "]", "^", "_">>
        small == <<"a", "b", "c", "d", "e", "f", "g", "h", "i", "j", "k", "l", "m", "n", "o", "p", "q", "r", "s", "t", "u", "v", "w", "x", "y", "z", "{", "|", "}", "~">>
    IN CASE n = 9 -> "\t"
         [] n = 10 -> "\n"
         [] n = 27 -> Esc
         [] n = 127 -> Del
         [] n = 233 -> EAcute
         [] n \in 32..95 -> printable[n - 31]
         [] n \in 97..126 -> small[n - 96]
         [] OTHER -> "@"

\* chars.count(sub) for a non-empty sub
RECURSIVE Count(_, _)
Count(chars, sub) ==
    IF Len(chars) < Len(sub) THEN 0
    ELSE IF IsPrefix(sub, chars) THEN 1 + Count(SliceFrom(chars, Len(sub)), sub)
    ELSE Count(Tail(chars), sub)

Space == <<"set", Whitespace>>
NonSpace == <<"not", Whitespace>>
Rest == <<"star", <<"dot">>>>
InOrder(patterns) == <<"seq", patterns>>

\* The state of a reader that goes through the file line by line, after a
\* line: the reader stops when die() or an exception ends it.
After(st, rd) ==
    [st |-> st,
     rd |-> IF st.exc /\ rd.status = "reading" THEN [rd EXCEPT !.status = "raised"]
            ELSE rd]

\* The groups of a pattern that is a sequence of parts pre(group)post, each
\* matched from the end of the group before it.
RECURSIVE Groups(_, _, _)
Groups(parts, s, i) ==
    IF parts = <<>> THEN <<>>
    ELSE LET m == MatchAt(parts[1][1], parts[1][2], parts[1][3], s, i)
         IN <<m>> \o Groups(Tail(parts), s, m.end)

\* Assignments to attributes of the node that a reader has added, when the
\* reader has not stopped.
Assigned(a, todo) ==
    IF a.rd.status # "reading" THEN a
    ELSE After(Assignments(a.st, a.rd.current_node, todo, 1), a.rd)

\* An exception in a reader that has not stopped, when cond holds.
Raised(a, cond) ==
    IF cond /\ a.rd.status = "reading" THEN After([a.st EXCEPT !.exc = TRUE], a.rd)
    ELSE a

\* die() in a reader that has not stopped, when cond holds.
Died(a, cond) ==
    IF cond /\ a.rd.status = "reading" THEN [a EXCEPT !.rd.status = "died"] ELSE a

\* warn() in a reader that has not stopped, when cond holds.
Warned(a, cond) ==
    IF cond /\ a.rd.status = "reading" THEN [a EXCEPT !.st = warn(a.st, TRUE)] ELSE a

\* The line that write_text has written for a record.
text_written(e) ==
    e.indent \o e.title \o <<" ", ":", ":", " ">> \o e.page
      \o (IF e.dest = PyNone THEN <<>> ELSE <<" ">> \o e.dest.v) \o <<"\n">>

\* The body of the loop of read_text for a line of which g are the groups
\* of linepattern: the new node and its attributes.
text_record(st, rd, line, g) ==
    LET indent == SubSeq(line, 1, g[1].begin - 1)
        number == int(g[2].group)
    IN IF ~g[1].found THEN After(Ignored(st, rd), rd)
       ELSE Assigned(
                Warned(Assigned(AddNode(st, rd, Count(indent, <<" ", " ", " ", " ">>) + 1),
                                <<To("title", PyUnicode(strip(g[1].group)))>>),
                       number.exc),
                <<To("page", PyInt(IF number.exc THEN 0 ELSE number.value))>>
                  \o (IF g[3].found
                      THEN <<To("destination", PyUnicode(strip(g[3].group)))>>
                      ELSE <<>>)
                  \o <<To("action", GoTo)>>)

\* The body of the loop of read_text for one line.
text_line(st, rd, line) ==
    LET colons == Word(<<":", ":">>)
    IN text_record(st, rd, line,
           Groups(<<<<(<<"star", Space>>), InOrder(<<NonSpace, Rest>>), colons>>,
                    <<InOrder(<<colons, Spaces>>), <<"star", Digit>>, Empty>>,
                    <<Spaces,
                      <<"alt", <<InOrder(<<Word(<<"X", "Y", "Z">>), Rest>>),
                                 InOrder(<<Word(<<"F", "i", "t">>), Rest>>)>>>>,
                      Empty>>>>,
                  line, 1))

\* The three lines that write_pdftk has written for a record.
pdftk_written(e) ==
    <<<<"B", "o", "o", "k", "m", "a", "r", "k", "T", "i", "t", "l", "e", ":", " ">> \o e.title \o <<"\n">>,
      <<"B", "o", "o", "k", "m", "a", "r", "k", "L", "e", "v", "e", "l", ":", " ">> \o e.level \o <<"\n">>,
      <<"B", "o", "o", "k", "m", "a", "r", "k", "P", "a", "g", "e", "N", "u", "m", "b", "e", "r", ":", " ">> \o e.page \o <<"\n">>>>

\* escape_re.sub(unescape, title): every &#number; becomes the character
\* with the number.
RECURSIVE escape_re_sub(_)
escape_re_sub(chars) ==
    LET m == MatchAt(Word(<<"&", "#">>), <<"plus", Digit>>, Lit(";"), chars, 1)
    IN IF chars = <<>> THEN <<>>
       ELSE IF m.found
            THEN <<Chr(Number(m.group))>> \o escape_re_sub(SliceFrom(chars, m.end))
            ELSE <<chars[1]>> \o escape_re_sub(Tail(chars))

\* while escape_re.search(title): title = escape_re.sub(unescape, title)
RECURSIVE unescape_numbers(_)
unescape_numbers(chars) ==
    LET once == escape_re_sub(chars)
    IN IF once = chars THEN chars ELSE unescape_numbers(once)

\* saxutils.unescape(data, {'&quot;': '"', '&apos;': "'"}): one replace()
\* after the other, that of &amp; last.
unescape_sax(chars) ==
    Replace(Replace(Replace(Replace(Replace(chars, <<"&", "l", "t", ";">>, <<"<">>), <<"&", "g", "t", ";">>, <<">">>),
                            <<"&", "q", "u", "o", "t", ";">>, <<"\"">>), <<"&", "a", "p", "o", "s", ";">>, <<"'">>), <<"&", "a", "m", "p", ";">>, <<"&">>)

\* The body of the loop of read_pdftk for one line.
pdftk_line(st, rd, line) ==
    LET spaces == <<"star", Space>>
        titlematch == MatchAt(InOrder(<<Word(<<"B", "o", "o", "k", "m", "a", "r", "k", "T", "i", "t", "l", "e", ":">>), spaces>>),
                              <<"plus", <<"dot">>>>, Empty, line, 1)
        levelmatch == MatchAt(InOrder(<<Word(<<"B", "o", "o", "k", "m", "a", "r", "k", "L", "e", "v", "e", "l", ":">>), spaces>>),
                              <<"plus", Digit>>, Empty, line, 1)
        pagematch == MatchAt(InOrder(<<Word(<<"B", "o", "o", "k", "m", "a", "r", "k", "P", "a", "g", "e", "N", "u", "m", "b", "e", "r", ":">>), spaces>>),
                             <<"plus", Digit>>, Empty, line, 1)
    IN IF titlematch.found
       THEN After(st, [rd EXCEPT !.title =
                         PyUnicode(unescape_sax(unescape_numbers(titlematch.group)))])
       ELSE IF levelmatch.found
       THEN After(st, [rd EXCEPT !.level = Number(levelmatch.group)])
       ELSE IF pagematch.found
       THEN Assigned(AddNode(st, rd, rd.level),
                     <<To("title", Stripped(rd.title)),
                       To("page", PyInt(Number(pagematch.group))),
                       To("action", GoTo)>>)
       ELSE After(Ignored(st, rd), rd)

\* The line that write_csv has written for a record.
csv_written(e) ==
    e.depth \o <<";">> \o e.flags \o <<";">> \o e.title \o <<";">> \o e.page
      \o (IF e.destination = PyNone THEN <<>> ELSE e.destination.v)
      \o (IF e.moreopts = PyNone THEN <<>> ELSE e.moreopts.v) \o <<"\n">>

\* int(chars, 16) for the one or two characters behind a backslash: the
\* number, or a ValueError when they are no hexadecimal digits.
Hex(chars) ==
    LET upper == <<"0", "1", "2", "3", "4", "5", "6", "7", "8", "9", "A", "B", "C", "D", "E", "F">>
        lower == <<"0", "1", "2", "3", "4", "5", "6", "7", "8", "9", "a", "b", "c", "d", "e", "f">>
        is(c, k) == c = upper[k + 1] \/ c = lower[k + 1]
        ok == chars # <<>> /\ \A i \in 1..Len(chars) : \E k \in 0..15 : is(chars[i], k)
        digit(c) == CHOOSE k \in 0..15 : is(c, k)
    IN [exc |-> ~ok,
        value |-> IF ~ok THEN 0
                  ELSE IF Len(chars) = 1 THEN digit(chars[1])
                  ELSE 16 * digit(chars[1]) + digit(chars[2])]

\* The loop of unescape() of read_csv: the characters of the result,
\* whether one of them is a character of s itself, which makes the result
\* a unicode string, and whether int() raised.
RECURSIVE unescape_loop(_)
unescape_loop(s) ==
    IF s = <<>> THEN [exc |-> FALSE, chars |-> <<>>, unicode |-> FALSE]
    ELSE IF s[1] = "\\"
         THEN LET n == Hex(Slice(s, 1, 3))
                  rest == unescape_loop(SliceFrom(s, 3))
              IN [exc |-> n.exc \/ rest.exc,
                  chars |-> <<Chr(n.value)>> \o rest.chars,
                  unicode |-> rest.unicode]
         ELSE LET rest == unescape_loop(Tail(s))
              IN [exc |-> rest.exc, chars |-> <<s[1]>> \o rest.chars, unicode |-> TRUE]

\* unescape() of read_csv: None for None.
unescape_csv(x) ==
    LET r == unescape_loop(x.v)
    IN IF x = PyNone THEN [exc |-> FALSE, value |-> PyNone]
       ELSE [exc |-> r.exc,
             value |-> IF r.unicode THEN PyUnicode(r.chars) ELSE PyStr(r.chars)]

\* The loop "while True" of parse_moreopts: the value up to the quote that
\* ends it, and the rest of s.
RECURSIVE moreopts_value(_, _)
moreopts_value(s, value) ==
    LET pos == find(s, <<"\"">>)
    IN IF pos < Len(s) - 1 /\ s[pos + 2] = "\""
       THEN moreopts_value(SliceFrom(s, pos + 2), value \o Slice(s, 0, pos + 1))
       ELSE [value |-> value \o Slice(s, 0, pos), s |-> SliceFrom(s, pos + 1)]

\* The loop "while len(s) > 0" of parse_moreopts: the assignments to
\* result in their order.
RECURSIVE moreopts_loop(_)
moreopts_loop(s) ==
    IF s = <<>> THEN <<>>
    ELSE LET pos == find(s, <<"=", "\"">>)
             v == moreopts_value(SliceFrom(s, pos + 2), <<>>)
         IN <<[key |-> Lower(Slice(s, 0, pos)), value |-> v.value]>>
              \o moreopts_loop(strip(v.s))

\* parse_moreopts(s): the assignments, and the type that the values have.
parse_moreopts(x) ==
    LET u == unescape_csv(PyUnicode(SliceFrom(x.v, 1)))
    IN IF x = PyNone THEN [exc |-> FALSE, t |-> "unicode", entries |-> <<>>]
       ELSE [exc |-> u.exc, t |-> u.value.t,
             entries |-> IF u.exc THEN <<>> ELSE moreopts_loop(strip(u.value.v))]

\* moreopt_dict.setdefault(key, default)
setdefault(opts, key, default) ==
    LET at == {i \in 1..Len(opts.entries) : opts.entries[i].key = key}
    IN IF at = {} THEN default
       ELSE [t |-> opts.t, v |-> opts.entries[Greatest(at)].value]

\* if page_override is not None of read_csv: the destination behind the
\* first blank and the page before it, with die() for a ValueError.
csv_override(a, override) ==
    LET blank == find(override.v, <<" ">>)
        number == int(Slice(override.v, 0, blank))
    IN IF override = PyNone \/ blank < 0 THEN a
       ELSE Assigned(
                Died(Assigned(a, <<To("destination",
                                      PyUnicode(SliceFrom(override.v, blank + 1)))>>),
                     number.exc),
                <<To("page", PyInt(number.value))>>)

\* node.destination = node.destination.strip(), when it is not None
csv_strip(a) ==
    IF a.rd.status # "reading" \/ a.st.attr[a.rd.current_node].destination = PyNone
    THEN a
    ELSE Assigned(a, <<To("destination",
                          Stripped(a.st.attr[a.rd.current_node].destination))>>)

\* The assignments of read_csv to the node it has added for a line with
\* the groups g and the options opts.
csv_node(a, g, opts) ==
    LET has(c) == \E i \in 1..Len(g[2].group) : g[2].group[i] = c
        title == unescape_csv(PyUnicode(g[3].group))
        file_ == unescape_csv(setdefault(opts, <<"f", "i", "l", "e">>, PyNone))
        uri == unescape_csv(setdefault(opts, <<"u", "r", "i">>, PyNone))
    IN csv_override(
           Assigned(
               Raised(
                   Assigned(
                       Raised(
                           Assigned(
                               Raised(
                                   csv_strip(
                                       Assigned(
                                           Raised(a, title.exc),
                                           <<To("title", title.value),
                                             To("page", PyInt(int(g[4].group).value)),
                                             To("destination",
                                                IF g[5].found THEN PyUnicode(g[5].group)
                                                ELSE PyNone)>>)),
                                   opts.exc),
                               <<To("action", setdefault(opts, <<"a", "c", "t", "i", "o", "n">>, GoTo)),
                                 To("open", PyBool(has("O")))>>
                                 \o (IF has("B") THEN <<To("bold", PyBool(TRUE))>>
                                     ELSE <<>>)
                                 \o (IF has("I") THEN <<To("italic", PyBool(TRUE))>>
                                     ELSE <<>>)),
                           file_.exc),
                       <<To("file", file_.value)>>),
                   uri.exc),
               <<To("uri", uri.value),
                 To("color", setdefault(opts, <<"c", "o", "l", "o", "r">>, PyNone))>>),
           setdefault(opts, <<"p", "a", "g", "e">>, PyNone))

\* The body of the loop of read_csv for a line of which g are the groups
\* of linepattern.
csv_record(st, rd, g) ==
    IF ~(g[1].found /\ g[2].found /\ g[3].found /\ g[4].found)
    THEN After(Ignored(st, rd), rd)
    ELSE csv_node(AddNode(st, rd, int(g[1].group).value), g,
                  parse_moreopts(IF g[6].found THEN PyUnicode(g[6].group) ELSE PyNone))

\* The body of the loop of read_csv for one line.
csv_line(st, rd, line) ==
    LET notsemi == <<"not", {";"}>>
        number == InOrder(<<<<"opt", Lit("-")>>, <<"plus", Digit>>>>)
    IN csv_record(st, rd,
           Groups(<<<<Empty, number, Lit(";")>>,
                    <<Lit(";"),
                      InOrder(<<<<"opt", Lit("O")>>, <<"opt", Lit("B")>>,
                                <<"opt", Lit("I")>>>>),
                      Lit(";")>>,
                    <<Lit(";"), <<"star", notsemi>>, InOrder(<<Lit(";"), number>>)>>,
                    <<Lit(";"), number, Empty>>,
                    <<Empty, InOrder(<<Lit(" "), <<"plus", notsemi>>>>), Empty>>,
                    <<Empty, InOrder(<<Lit(";"), <<"star", notsemi>>>>), Empty>>>>,
                  line, 1))

\* The least number of a non-empty set of numbers.
Least(S) == CHOOSE x \in S : \A y \in S : x <= y

\* pattern.search(s) for the pattern pre(group)post: the match that begins
\* first.
Search(pre, group, post, s) ==
    LET at == {i \in 1..(Len(s) + 1) : MatchAt(pre, group, post, s, i).found}
    IN MatchAt(pre, group, post, s, IF at = {} THEN Len(s) + 2 ELSE Least(at))

\* chars.split(sep) for a separator of one character
RECURSIVE SplitBy(_, _)
SplitBy(chars, sep) ==
    LET pos == find(chars, <<sep>>)
    IN IF pos < 0 THEN <<chars>>
       ELSE <<Slice(chars, 0, pos)>> \o SplitBy(SliceFrom(chars, pos + 1), sep)

\* The line that write_latex has written for a record.
latex_written(e) ==
    e.indent \o <<"\\", "b", "o", "o", "k", "m", "a", "r", "k">> \o e.options \o <<"{">> \o e.title \o <<"}">> \o <<"\n">>

\* The searches of read_latex in the options of a \bookmark command.
latex_searches(options) ==
    LET spaces == <<"star", Space>>
        open == <<"set", {",", "["}>>
        close == InOrder(<<spaces, <<"set", {",", "]"}>>>>)
        key(name) == InOrder(<<open, spaces, Word(name), spaces, Lit("="), spaces>>)
        flag(name) == InOrder(<<open, spaces, Word(name), close>>)
        digits == <<"plus", Digit>>
        value == <<"plus", <<"not", {",", "]"}>>>>
        part == <<"plus", <<"set", Digit[2] \cup {"."}>>>>
        comma == InOrder(<<spaces, Lit(","), spaces>>)
    IN [level |-> Search(key(<<"l", "e", "v", "e", "l">>), digits, close, options),
        gotor |-> Search(key(<<"g", "o", "t", "o", "r">>), value, close, options),
        named |-> Search(key(<<"n", "a", "m", "e", "d">>), value, close, options),
        uri |-> Search(key(<<"u", "r", "i">>), value, close, options),
        page |-> Search(key(<<"p", "a", "g", "e">>), digits, close, options),
        view |-> Search(key(<<"v", "i", "e", "w">>), value, close, options),
        dest |-> Search(key(<<"d", "e", "s", "t">>), value, close, options),
        color |-> Search(InOrder(<<key(<<"c", "o", "l", "o", "r">>), Word(<<"[", "r", "g", "b", "]">>), spaces, Lit("{")>>),
                         InOrder(<<part, comma, part, comma, part>>),
                         InOrder(<<Lit("}"), close>>), options),
        bold |-> Search(flag(<<"b", "o", "l", "d">>), Empty, Empty, options),
        italic |-> Search(flag(<<"i", "t", "a", "l", "i", "c">>), Empty, Empty, options)]

\* The body of the loop of read_latex for a line with a \bookmark command:
\* the new node and the attributes that the matches m give it.
latex_record(st, rd, title, m) ==
    LET view == IF IsPrefix(<<"{">>, m.view.group)
                THEN strip(Slice(m.view.group, 1, -1)) ELSE m.view.group
        rgb == SplitBy(m.color.group, ",")
        pageview ==
            (IF m.page.found THEN <<To("page", PyInt(Number(m.page.group)))>>
             ELSE <<>>)
              \o (IF m.view.found THEN <<To("destination", PyUnicode(view))>>
                  ELSE <<>>)
        main ==
            IF m.gotor.found
            THEN (IF m.dest.found THEN <<To("file", PyUnicode(m.dest.group))>>
                  ELSE pageview)
            ELSE IF m.named.found
            THEN <<To("action", PyStr(<<"G", "o", "T", "o", "R">>)), To("named", PyUnicode(m.named.group))>>
            ELSE IF m.uri.found
            THEN <<To("action", PyStr(<<"U", "R", "I">>)), To("uri", PyUnicode(m.uri.group))>>
            ELSE <<To("action", GoTo)>> \o pageview
        other ==
            (IF m.color.found
             THEN <<To("color",
                       PyUnicode(JoinWith(<<" ">>, [i \in 1..Len(rgb) |-> strip(rgb[i])])))>>
             ELSE <<>>)
              \o (IF m.bold.found THEN <<To("bold", PyBool(TRUE))>> ELSE <<>>)
              \o (IF m.italic.found THEN <<To("italic", PyBool(TRUE))>> ELSE <<>>)
    IN Assigned(AddNode(st, rd, IF m.level.found THEN Number(m.level.group) + 1 ELSE 1),
                <<To("title", PyUnicode(strip(title)))>> \o main \o other)

\* The body of the loop of read_latex for one line of which g are the
\* groups of the pattern of the \bookmark command.
latex_command(st, rd, g) ==
    IF ~g[1].found THEN After(Ignored(st, rd), rd)
    ELSE latex_record(st, rd, g[2].group, latex_searches(g[1].group))

\* The body of the loop of read_latex for one line.
latex_line(st, rd, line) ==
    LET spaces == <<"star", Space>>
        behind == InOrder(<<Lit("{"), Rest, Lit("}"), spaces, <<"end">>>>)
    IN latex_command(st, rd,
           Groups(<<<<InOrder(<<spaces, Word(<<"\\">> \o <<"b", "o", "o", "k", "m", "a", "r", "k">>)>>),
                      InOrder(<<Lit("["), Rest, Lit("]")>>), behind>>,
                    <<Lit("{"), Rest, InOrder(<<Lit("}"), spaces, <<"end">>>>)>>>>,
                  line, 1))

\* The closing parentheses that write_djvused has written behind the line
\* of event i.
RECURSIVE Closes(_, _)
Closes(events, i) ==
    IF i < Len(events) /\ events[i + 1].kind = "close"
    THEN <<" ", ")">> \o Closes(events, i + 1) ELSE <<>>

\* The two lines that write_djvused has written for a record, the second
\* with the closing parentheses behind it.
djvused_written(e, closes) ==
    <<e.indent \o <<"(", "\"">> \o e.title \o <<"\"">> \o <<"\n">>,
      e.indent \o <<" ", "\"">> \o e.target \o <<"\"">> \o closes \o <<"\n">>>>

\* unescape() of read_djvused for characters below 2048: an octal escape
\* stands for a byte, \" for a double quote, and the bytes are decoded as
\* UTF-8.  A digit 8 or 9 is a ValueError, a byte from 128 on without its
\* second byte a UnicodeDecodeError.
RECURSIVE unescape_djvused(_)
unescape_djvused(s) ==
    LET octal(k) == /\ k + 3 <= Len(s)
                    /\ s[k] = "\\"
                    /\ \A d \in 1..3 : s[k + d] \in Digit[2]
        eight(k) == \A d \in 1..3 : s[k + d] \notin {"8", "9"}
        byte(k) == 64 * Number(<<s[k + 1]>>) + 8 * Number(<<s[k + 2]>>)
                     + Number(<<s[k + 3]>>)
        one == unescape_djvused(SliceFrom(s, 4))
        two == unescape_djvused(SliceFrom(s, 8))
        rest == unescape_djvused(Tail(s))
        quote == unescape_djvused(SliceFrom(s, 2))
        raised == [exc |-> TRUE, chars |-> <<>>]
    IN IF s = <<>> THEN [exc |-> FALSE, chars |-> <<>>]
       ELSE IF octal(1)
       THEN IF ~eight(1) THEN raised
            ELSE IF byte(1) < 128
            THEN [exc |-> one.exc, chars |-> <<Chr(byte(1))>> \o one.chars]
            ELSE IF octal(5) /\ eight(5) /\ byte(1) \in 192..223 /\ byte(5) \in 128..191
            THEN [exc |-> two.exc,
                  chars |-> <<Chr((byte(1) - 192) * 64 + byte(5) - 128)>> \o two.chars]
            ELSE raised
       ELSE IF IsPrefix(<<"\\", "\"">>, s)
       THEN [exc |-> quote.exc, chars |-> <<"\"">> \o quote.chars]
       ELSE [exc |-> rest.exc, chars |-> <<s[1]>> \o rest.chars]

\* The two lines of read_djvused behind the assignments for the line of a
\* target: current_node goes up one parent for every closing parenthesis.
djvused_up(st, rd, endings) ==
    LET up == ParentLoop(st, rd.current_node, Count(endings, <<")">>))
    IN IF st.exc \/ up.exc
       THEN [st |-> [st EXCEPT !.exc = TRUE], rd |-> [rd EXCEPT !.status = "raised"]]
       ELSE After(st, [rd EXCEPT !.current_node = up.node])

\* The body of the loop of read_djvused for the line of a target.
djvused_target(st, rd, target, endings) ==
    LET node == rd.current_node
        hash == find(target, <<"#">>)
        page == int(SliceFrom(target, 1))
        parts == SplitBy(target, "#")
        goto == hash >= 0 /\ match(InOrder(<<Lit("#"), <<"plus", Digit>>>>), target)
        todo == IF hash < 0
                THEN <<To("action", PyStr(<<"U", "R", "I">>)), To("uri", PyUnicode(target))>>
                ELSE IF goto
                THEN <<To("action", GoTo), To("page", PyInt(page.value))>>
                ELSE <<To("action", PyStr(<<"G", "o", "T", "o", "R">>)), To("file", PyUnicode(parts[1])),
                       To("page", PyUnicode(parts[2]))>>
    IN IF node = None
       THEN [st |-> [st EXCEPT !.exc = TRUE], rd |-> [rd EXCEPT !.status = "raised"]]
       ELSE djvused_up(Assignments(Raise(st, goto /\ page.exc), node, todo, 1), rd,
                       endings)

\* The body of the loop of read_djvused for one line.  An attribute or
\* method of None raises AttributeError.
djvused_line(st, rd, root, line) ==
    LET spaces == <<"star", Space>>
        start == MatchAt(spaces, Word(<<"(", "b", "o", "o", "k", "m", "a", "r", "k", "s">>), Empty, line, 1)
        titlematch == MatchAt(InOrder(<<spaces, Word(<<"(", "\"">>)>>), Rest, Lit("\""), line, 1)
        targetmatch == MatchAt(InOrder(<<spaces, Lit("\"")>>), Rest, Lit("\""), line, 1)
        node == rd.current_node
        new == st.used + 1
        title == unescape_djvused(titlematch.group)
    IN IF start.found THEN After(st, [rd EXCEPT !.current_node = root])
       ELSE IF titlematch.found
       THEN (IF node = None \/ title.exc
             THEN [st |-> [st EXCEPT !.exc = TRUE],
                   rd |-> [rd EXCEPT !.status = "raised"]]
             ELSE After(__setattr__(newchild(Bookmark(st), node, new), new, "title",
                                    PyUnicode(title.chars)),
                        [rd EXCEPT !.current_node = new]))
       ELSE IF targetmatch.found
       THEN djvused_target(st, rd, targetmatch.group,
                MatchAt(Lit("\""), <<"star", InOrder(<<spaces, Lit(")")>>)>>, Empty,
                        line, targetmatch.end).group)
       ELSE After(Ignored(st, rd), rd)

\* A line of a file as a reader gets it: its characters, or a line of
\* which the model has no characters and which matches no pattern.
Chars(chars) == [kind |-> "chars", chars |-> chars]
NoRecord == [kind |-> "other", chars |-> <<>>]

\* The lines of the event i of a written file.
WrittenLines(format, events, i) ==
    LET e == events[i]
    IN CASE e.kind = "record" ->
              (CASE format = "text" -> <<Chars(text_written(e))>>
                 [] format = "pdftk" ->
                      [k \in 1..3 |-> Chars(pdftk_written(e)[k])]
                 [] format = "csv" -> <<Chars(csv_written(e))>>
                 [] format = "latex" -> <<Chars(latex_written(e))>>
                 [] format = "djvused" ->
                      [k \in 1..2 |-> Chars(djvused_written(e, Closes(events, i))[k])])
         [] e.kind = "start" ->
              <<Chars(<<"(", "b", "o", "o", "k", "m", "a", "r", "k", "s">> \o Closes(events, i) \o <<"\n">>)>>
         [] e.kind = "other" -> <<NoRecord>>
         [] OTHER -> <<>>

\* The body of the loop of the reader for one line.
ReadLine(st, rd, root, line) ==
    IF line.kind = "other" THEN After(Ignored(st, rd), rd)
    ELSE CASE rd.format = "text" -> text_line(st, rd, line.chars)
           [] rd.format = "pdftk" -> pdftk_line(st, rd, line.chars)
           [] rd.format = "csv" -> csv_line(st, rd, line.chars)
           [] rd.format = "latex" -> latex_line(st, rd, line.chars)
           [] rd.format = "djvused" -> djvused_line(st, rd, root, line.chars)

\* for line in infile: the body of the loop of the reader for the lines
\* from the i-th on, up to the line at which the reader stops.
RECURSIVE ReadLines(_, _, _, _)
ReadLines(a, root, lines, i) ==
    IF i > Len(lines) \/ a.rd.status # "reading" THEN a
    ELSE ReadLines(ReadLine(a.st, a.rd, root, lines[i]), root, lines, i + 1)

\* The end of a reader that goes through the file line by line.
Finished(a, root) ==
    Outcome(a.st, root, IF a.rd.status = "reading" THEN "returned" ELSE a.rd.status)

\* read_text, read_pdftk, read_csv, read_latex and read_djvused on the
\* lines of a written file.
read_lines(st, format, events) ==
    Finished(ReadLines([st |-> Bookmark(st),
                        rd |-> [format |-> format, status |-> "reading",
                                current_node |-> IF format = "djvused" THEN None
                                                 ELSE st.used + 1,
                                current_level |-> 0, level |-> 0,
                                title |-> PyStr(<<>>)]],
                       st.used + 1,
                       Join([i \in 1..Len(events) |-> WrittenLines(format, events, i)]),
                       1),
             st.used + 1)

\* from_handler(infilename) for a written file.
Read(st, f) ==
    CASE f.format = "xml" -> read_xml(st, f.events)
      [] f.format = "html" -> read_html(st, f.events)
      [] OTHER -> read_lines(st, f.format, f.events)

OpReadBack(root, written, status) ==
    [op |-> "read back", self |-> root, other |-> written, i |-> 0,
     ret |-> IF status = "returned" THEN root ELSE None, exc |-> status = "raised",
     format |-> file.format, long |-> last.long, status |-> status]

\* The file that a serializer has written is read with the reader of its
\* format, as in c = read_csv("out.csv") after write_csv(d, "out.csv").
ReadBack ==
    /\ last.op = "write"
    /\ ~last.exc
    /\ used + Len(RecordsOf(file.events)) + 1 <= MaxHeap
    /\ \E r \in {Read(Cur, file)} :
           /\ HeapNext(r.st, MaxHeap)
           /\ last' = OpReadBack(r.root, last.self, r.status)
    /\ UNCHANGED <<ops, outer, inner, prev, reader, file>>

WriteInit ==
    /\ \E st \in Trees : InitHeap(st)
    /\ ops = MaxOps
    /\ outer = NoLoop
    /\ inner = NoLoop
    /\ prev = NoPrev
    /\ last = Op("init", None, None, 0, None, FALSE)

NextWrite ==
    \/ \E root \in Live, format \in Writers, long \in BOOLEAN :
           Write(root, format, long)
    \/ ReadBack

SpecWrite == WriteInit /\ [][NextWrite]_vars

(***************************************************************************)
(* Claims about the serializers.                                           *)
(***************************************************************************)

\* The record that the serializer of a format writes for a node.
RecordFor(st, node, format, long) ==
    CASE format = "text" -> write_text_body(st, node, long).record
      [] format = "pdftk" -> write_pdftk_body(st, node).record
      [] format = "csv" -> write_csv_body(st, node).record
      [] format = "latex" -> write_latex_body(st, node).record
      [] format = "xml" -> xml_element(st, node).record
      [] format = "html" -> html_item(st, node).record
      [] format = "djvused" -> djvused_entry(st, node)

\* C24: every serializer ends without an exception and has written one
\* record for every node below the root, in preorder: the i-th record is
\* the record of the i-th node, whatever the action of the node is.
C24_OneRecordPerNode ==
    last.op = "write" =>
        LET nodes == Preorder(Cur, last.self)
            records == RecordsOf(file.events)
        IN /\ ~last.exc
           /\ Len(records) = Len(nodes)
           /\ \A i \in 1..Len(nodes) :
                  /\ records[i].kind = "record"
                  /\ records[i] = RecordFor(Cur, nodes[i], last.format, last.long)

\* The categories of which a serializer can warn.
CategoriesOf(format, long) ==
    CASE format = "text" ->
           {"trimmed", "blank title", "action", "formatting", "closed"}
             \cup (IF long THEN {} ELSE {"destination"})
      [] format = "pdftk" -> {"action", "formatting", "destination", "closed"}
      [] format = "latex" -> {"launch"}
      [] OTHER -> {}

\* The node has the feature that the category names.
Feature(category, a) ==
    CASE category = "trimmed" -> a.title.v # <<>> /\ strip(a.title.v) # a.title.v
      [] category = "blank title" -> strip(a.title.v) = <<>>
      [] category = "action" -> a.action.v # <<"G", "o", "T", "o">>
      [] category = "formatting" ->
           a.color # PyNone \/ a.bold = PyBool(TRUE) \/ a.italic = PyBool(TRUE)
      [] category = "destination" -> a.destination \notin {PyNone, PyUnicode(<<>>)}
      [] category = "closed" -> a.open = PyBool(FALSE)
      [] category = "launch" -> a.action.v = <<"L", "a", "u", "n", "c", "h">>

\* C28: write_text, write_pdftk and write_latex warn of a category once
\* when a node below the root has the feature that the category names and
\* not at all when no node has it, and every warning comes after the last
\* line written to the file.
C28_WarningsOncePerCategory ==
    (last.op = "write" /\ last.format \in {"text", "pdftk", "latex"} /\ ~last.exc) =>
        LET nodes == Preorder(Cur, last.self)
            said == WarningsOf(file.events)
        IN /\ \A c \in CategoriesOf(last.format, last.long) :
                  Cardinality({i \in 1..Len(said) : said[i] = c})
                    = IF \E i \in 1..Len(nodes) : Feature(c, attr[nodes[i]])
                      THEN 1 ELSE 0
           /\ \A i \in 1..Len(file.events), j \in 1..Len(file.events) :
                  (file.events[i].kind = "warning" /\ file.events[j].kind # "warning")
                    => j < i

\* The attributes that no format implies by itself.
Carried == {"bold", "italic", "color", "destination", "open", "named", "newwindow"}

\* The heap in which the attribute name of node has the value that
\* Bookmark() gives it.
WithDefault(st, node, name) == [st EXCEPT !.attr[node][name] = InitAttrs[name]]

\* C29: when the records that a serializer has written do not depend on
\* the value that one of the attributes bold, italic, color, destination,
\* open, named and newwindow has on a node, and that value is not the one
\* Bookmark() gives the attribute, then the serializer has warned.
C29_LossIsReported ==
    (last.op = "write" /\ ~last.exc) =>
        \A node \in Range(Preorder(Cur, last.self)), name \in Carried :
            (/\ attr[node][name] # InitAttrs[name]
             /\ RecordsOf(Written(WithDefault(Cur, node, name), last.self, last.format,
                                      last.long).file.events)
                  = RecordsOf(file.events))
              => \E i \in 1..Len(file.events) :
                     /\ file.events[i].kind = "warning"
                     /\ file.events[i].category # ""

(***************************************************************************)
(* Claims about writing a tree and reading the file.                       *)
(***************************************************************************)

\* The place of the parent of the i-th node of a preorder, 0 for a child
\* of the root.
ParentPlace(st, nodes, i) ==
    LET at == {k \in 1..Len(nodes) : nodes[k] = st._parent[nodes[i]]}
    IN IF at = {} THEN 0 ELSE CHOOSE k \in at : TRUE

\* The trees of a and b have the same shape: the same sequence of levels
\* in preorder and the same parent for every node.
SameShape(st, a, b) ==
    LET x == Preorder(st, a)
        y == Preorder(st, b)
    IN /\ Len(x) = Len(y)
       /\ \A i \in 1..Len(x) :
              /\ st._level[x[i]] = st._level[y[i]]
              /\ ParentPlace(st, x, i) = ParentPlace(st, y, i)

\* The attributes with the given names are equal, as == of Python has it,
\* on every node of the tree of a with one of the given actions and the
\* node of the tree of b at its place.
Kept(st, a, b, names, actions) ==
    LET x == Preorder(st, a)
        y == Preorder(st, b)
    IN \A i \in 1..Min(Len(x), Len(y)) :
           (\E action \in actions : PyEq(st.attr[x[i]].action, action))
             => \A name \in names : PyEq(st.attr[x[i]][name], st.attr[y[i]][name])

Actions == {PyNone, PyStr(<<"G", "o", "T", "o">>), PyStr(<<"G", "o", "T", "o", "R">>), PyStr(<<"U", "R", "I">>), PyStr(<<"L", "a", "u", "n", "c", "h">>)}

\* C25: read_xml of the file that write_xml has written for a tree returns
\* a tree of the same shape with the same action, page, destination,
\* named, namedn, file, newwindow, uri, italic, bold, color and open on
\* every node, also when a GoTo node has a page and no destination.
C25_XmlRoundTrip ==
    (last.op = "read back" /\ last.format = "xml") =>
        /\ last.status = "returned"
        /\ SameShape(Cur, last.other, last.self)
        /\ Kept(Cur, last.other, last.self,
                {"action", "page", "destination", "named", "namedn", "file",
                 "newwindow", "uri", "italic", "bold", "color", "open"}, Actions)

\* A title that is not empty and has letters and digits only.
Plain(title) ==
    /\ title.v # <<>>
    /\ \A i \in 1..Len(title.v) :
           \/ title.v[i] \in Digit[2]
           \/ Lower(<<title.v[i]>>)[1] \in Range(<<"a", "b", "c", "d", "e", "f", "g", "h", "i", "j", "k", "l", "m", "n", "o", "p", "q", "r", "s", "t", "u", "v", "w", "x", "y", "z">>)

\* C26: when every node of a tree has the action GoTo, a page and a title
\* that is not empty and has no special characters, the reader of each of
\* the formats text, pdftk, csv, latex, djvused and html returns, for the
\* file that the serializer of the format has written, a tree of the same
\* shape with the same title and the same page on every node.
C26_PlainRoundTrip ==
    (/\ last.op = "read back"
     /\ last.format \in {"text", "pdftk", "csv", "latex", "djvused", "html"}
     /\ \A n \in Range(Preorder(Cur, last.other)) :
            /\ PyEq(attr[n].action, GoTo)
            /\ Num(attr[n].page) > 0
            /\ Plain(attr[n].title))
      => /\ last.status = "returned"
         /\ SameShape(Cur, last.other, last.self)
         /\ Kept(Cur, last.other, last.self, {"title", "page"}, Actions)

\* C27: read_csv of the file that write_csv has written for a tree returns
\* a tree of the same shape in which every node with the action GoTo,
\* GoToR, URI or Launch has kept its action, page, destination, file, uri,
\* color, open, bold and italic: a GoToR node keeps its page with and
\* without a destination, and the color "0 0.5 0.5" is kept.
C27_CsvRoundTrip ==
    (last.op = "read back" /\ last.format = "csv") =>
        /\ last.status = "returned"
        /\ SameShape(Cur, last.other, last.self)
        /\ Kept(Cur, last.other, last.self,
                {"action", "page", "destination", "file", "uri", "color", "open",
                 "bold", "italic"}, Actions \ {PyNone})

----------------------------------------------------------------------------
\* The position index of a node.

\* C31: in every reachable state, the position index stored in a node that
\* has a parent is the index at which the node stands in the child list of
\* that parent: it lies between 0 and number_of_children() - 1 and the
\* child at that index is the node itself.
C31_ChildnumberIsIndex ==
    \A n \in Live :
        _parent[n] # None =>
            LET cs == _children[_parent[n]]
            IN /\ _childnumber[n] >= 0
               /\ _childnumber[n] < Len(cs)
               /\ cs[_childnumber[n] + 1] = n

\* C32: set_child(i, node) changes the level of node and of the nodes below
\* node only: every other node has after the call the level it had before.
C32_SetChildKeepsOtherLevels ==
    [][(last'.op = "set_child" /\ ~last'.exc)
        => \A n \in Live \ Subtree(Cur, last'.other) : _level'[n] = _level[n]]_vars

----------------------------------------------------------------------------
\* A caller that leaves a for-loop by break, calls reset() on its start
\* node and begins the loop again.

\* for x in s:   (the first loop of the caller)
First(s) ==
    /\ outer = NoLoop
    /\ BeginOuter(s)

\* break in the loop, after at least one node was yielded
Break ==
    /\ outer.status = "running"
    /\ Len(outer.got) >= 1
    /\ outer' = [outer EXCEPT !.status = "left"]
    /\ last' = Op("break", outer.start, None, 0, None, FALSE)
    /\ UNCHANGED <<_parent, _children, _level, _childnumber, _delete, _seen,
                   _iteritem, attr, warned, used, ops, inner, prev,
                   reader, file>>

\* for x in s:   (again, right after s.reset(), s being the start node of
\* the loop that was left; prev keeps what the loop that was left yielded)
Again ==
    /\ outer.status = "left"
    /\ last.op = "reset"
    /\ last.self = outer.start
    /\ outer' = LoopBegin(outer.start, FALSE)
    /\ prev' = [start |-> outer.start, got |-> outer.got, clean |-> FALSE]
    /\ last' = Op("iter", outer.start, None, 0, outer.start, FALSE)
    /\ UNCHANGED <<_parent, _children, _level, _childnumber, _delete, _seen,
                   _iteritem, attr, warned, used, ops, inner, reader, file>>

NextAgain ==
    \/ \E s \in Live : First(s)
    \/ StepOuter
    \/ Break
    \/ \E s \in Live : Reset(s)
    \/ Again

SpecAgain == IterInit /\ [][NextAgain]_vars

\* C33: after reset() on the start node of a loop that was left part-way,
\* the next loop over that node yields the whole sequence of the node from
\* its first node on, as if no iteration had been made before, and each
\* node once; from a root that sequence is the preorder of the tree.
C33_ResetRestarts ==
    (prev.start # None /\ prev.start = outer.start /\ ~outer.wasreset
         /\ outer.status \in {"running", "left", "done", "raised"}) =>
        /\ outer.fresh
        /\ outer.status # "raised"
        /\ IsPrefix(outer.got, Alone(outer.start))
        /\ NoRepeat(outer.got)
        /\ outer.status = "done" =>
               /\ outer.got = Alone(outer.start)
               /\ is_root(Cur, outer.start) =>
                      outer.got = Preorder(Cur, outer.start)

\* A loop over a root was left after its first node of at least three,
\* the root was reset, and the next loop over it ran to exhaustion.
C33_Witness ==
    /\ prev.start # None
    /\ prev.start = outer.start
    /\ Len(prev.got) = 1
    /\ outer.status = "done"
    /\ ~outer.wasreset
    /\ is_root(Cur, outer.start)
    /\ Len(outer.got) >= 3

----------------------------------------------------------------------------
\* A caller that runs a for-loop over a node of a tree of GoTo bookmarks,
\* leaves it by break or not at all, and then writes the tree.

\* The trees of at most MaxBuild nodes with root 1 whose other nodes are
\* bookmarks to a page with a title.
PageTrees ==
    LET shapes == {s \in Built(MaxBuild) : \A n \in 2..s.used : s._parent[n] # None}
    IN {[Made(s, [n \in 1..s.used |-> IF n = 1 THEN "fresh" ELSE "GoTo"], 2)
           EXCEPT !.warned = 0] : s \in shapes}

LeftInit ==
    /\ \E st \in PageTrees : InitHeap(st)
    /\ ops = MaxOps
    /\ outer = NoLoop
    /\ inner = NoLoop
    /\ prev = NoPrev
    /\ last = Op("init", None, None, 0, None, FALSE)

NextLeft ==
    \/ \E s \in Live : First(s)
    \/ StepOuter
    \/ Break
    \/ \E root \in Live, format \in Writers, long \in BOOLEAN :
           Write(root, format, long)

SpecLeft == LeftInit /\ [][NextLeft]_vars

\* C34: write_text, write_pdftk, write_csv and write_latex write one record
\* for every node below the root, in preorder, also when a loop over the
\* root was left by break before and reset() was not called since.
C34_WritesAllAfterBreak ==
    (/\ last.op = "write"
     /\ last.format \in {"text", "pdftk", "csv", "latex"}
     /\ outer.status = "left"
     /\ outer.start = last.self) =>
        LET nodes == Preorder(Cur, last.self)
            records == RecordsOf(file.events)
        IN /\ ~last.exc
           /\ Len(records) = Len(nodes)
           /\ \A i \in 1..Len(nodes) :
                  records[i] = RecordFor(Cur, nodes[i], last.format, last.long)

----------------------------------------------------------------------------
\* The for-loops of SpecIter under a caller that goes on: a for statement
\* whose body has ended calls next() again, so a loop that can make its
\* next call makes it.
SpecIterFair == SpecIter /\ WF_vars(StepOuter) /\ WF_vars(StepInner)

\* C35: every run of the iteration ends and yields no node twice.  A call
\* of next() raises nothing but StopIteration; a node it yields did not
\* bear the number of the run before the call and bears it after; when it
\* raises StopIteration the cursor of the start node is None.  A loop that
\* is alone on its start node has yielded no node twice and not its start
\* node, and when it has ended the cursor is None.  Every loop that goes
\* on calling next() comes to its end.
C35_RunsEnd ==
    /\ [](\A l \in Loops :
             /\ l.status # "raised"
             /\ (l.status # "idle" /\ Clean(l)) =>
                    /\ NoRepeat(l.got)
                    /\ l.start \notin Range(l.got))
    /\ []((outer.status = "done" /\ Clean(outer)) => _iteritem[outer.start] = None)
    /\ [][(last'.op = "next")
            => /\ ~last'.exc
               /\ IF last'.ret = None
                  THEN _iteritem'[last'.self] = None
                  ELSE /\ _seen[last'.ret][last'.self] < _seen'[last'.self][last'.self]
                       /\ _seen'[last'.ret][last'.self] = _seen'[last'.self][last'.self]
                       /\ _iteritem'[last'.self] = last'.ret]_vars
    /\ (outer.status = "running") ~> (outer.status = "done")
    /\ (inner.status = "running") ~> (inner.status \in {"done", "left"})

\* A loop over a node with at least three nodes to yield has run to its
\* end, and a loop nested in it has run to its end as well.
C35_Witness ==
    /\ outer.status = "done"
    /\ Clean(outer)
    /\ Len(outer.got) >= 3
    /\ _iteritem[outer.start] = None
    /\ inner.status = "done"
    /\ Len(inner.got) >= 1

----------------------------------------------------------------------------
\* The file of a reader.

\* infile.close() has been called.  The readers open the file with
\* codecs.open() before the loop and call close() in one place, the
\* statement before "return root"; die() writes its message and calls
\* exit(2), and an exception that nothing catches leaves the function:
\* neither way passes a close().
infile_closed(rd) == rd.status = "returned"

\* C36: when a reader has ended, by return, by die() or by an exception,
\* it has closed the file it opened.
C36_FileClosedAtEnd ==
    reader.status \in {"returned", "died", "raised"} => infile_closed(reader)

----------------------------------------------------------------------------
\* escape() of write_csv and unescape() of read_csv on the strings of at
\* most MaxLen characters: a caller escapes a string and unescapes what it
\* got.

MaxLen == 3

\* Two characters that are hexadecimal digits, the four characters and two
\* of the control characters that escape() replaces, and two characters
\* from 127 on.
CsvChars == {"5", "C", ";", "\"", "'", "\\", "\t", Esc, Del, EAcute}

CsvStrings == UNION {[1..n -> CsvChars] : n \in 0..MaxLen}

\* A step on the string s of which out is the result.
OpCsv(op, s, out, exc) ==
    [op |-> op, self |-> None, other |-> None, i |-> 0, ret |-> None, exc |-> exc,
     s |-> s, out |-> out]

CsvInit ==
    /\ InitHeap(Fresh)
    /\ ops = MaxOps
    /\ outer = NoLoop
    /\ inner = NoLoop
    /\ prev = NoPrev
    /\ \E s \in CsvStrings : last = OpCsv("string", s, PyUnicode(s), FALSE)

\* escape(s) for the unicode string s
Escape ==
    /\ last.op = "string"
    /\ last' = OpCsv("escape", last.s, PyUnicode(escape_csv(last.s)), FALSE)
    /\ UNCHANGED <<_parent, _children, _level, _childnumber, _delete, _seen,
                   _iteritem, attr, warned, used, ops, outer, inner, prev,
                   reader, file>>

\* unescape(escape(s))
Unescape ==
    /\ last.op = "escape"
    /\ \E r \in {unescape_csv(last.out)} :
           last' = OpCsv("unescape", last.s, r.value, r.exc)
    /\ UNCHANGED <<_parent, _children, _level, _childnumber, _delete, _seen,
                   _iteritem, attr, warned, used, ops, outer, inner, prev,
                   reader, file>>

NextCsv ==
    \/ Escape
    \/ Unescape

SpecCsv == CsvInit /\ [][NextCsv]_vars

\* The characters that escape() of write_csv is to replace: the three that
\* have a meaning in a line of the file, and those with a code below 32.
Replaced(c) == c \in {";", "\"", "'"} \/ Ord(c) < 32

\* The control characters among the characters with a code below 256:
\* those below 32 and those from 127 to 159.
Control(c) == Ord(c) < 32 \/ Ord(c) \in 127..159

----------------------------------------------------------------------------
\* self += other, one round of its loop at a time.  "for child in
\* other.children()" is a loop over the list object itself: it takes the
\* element at its index as long as the index is below the length the list
\* has at that moment.

\* The loop of self += other after i rounds, other having had n children
\* when it began.
OpMerge(self, other, i, n, status) ==
    [op |-> "merge", self |-> self, other |-> other, i |-> i, ret |-> None,
     exc |-> status = "raised", n |-> n, status |-> status]

\* self += other is called
BeginMerge(self, other) ==
    /\ ops > 0
    /\ ops' = ops - 1
    /\ ~(last.op = "merge" /\ last.status = "running")
    /\ \/ other = self
       \/ /\ self \notin Subtree(Cur, other)
          /\ \A c \in Range(_children[other]) : c \notin Ancestors(Cur, self)
    /\ last' = OpMerge(self, other, 0, Len(_children[other]), "running")
    /\ UNCHANGED <<_parent, _children, _level, _childnumber, _delete, _seen,
                   _iteritem, attr, warned, used, outer, inner, prev,
                   reader, file>>

\* One round: self.newchild(); self.set_child(-1, child).  The list of
\* self is kept from growing beyond MaxNodes + 1 elements.
MergeRound ==
    /\ last.op = "merge"
    /\ last.status = "running"
    /\ last.i < Len(_children[last.other])
    /\ Len(_children[last.self]) <= MaxNodes
    /\ \E st \in {Collect(set_child(newchild(Cur, last.self, Dummy), last.self, 0 - 1,
                                    _children[last.other][last.i + 1]), Dummy)} :
           /\ HeapNext([st EXCEPT !.exc = FALSE], MaxNodes)
           /\ last' = OpMerge(last.self, last.other, last.i + 1, last.n,
                              IF st.exc THEN "raised" ELSE "running")
    /\ UNCHANGED <<ops, outer, inner, prev, reader, file>>

\* The list has no element at the index of the loop: return self
MergeEnd ==
    /\ last.op = "merge"
    /\ last.status = "running"
    /\ last.i >= Len(_children[last.other])
    /\ last' = [last EXCEPT !.status = "done"]
    /\ UNCHANGED <<_parent, _children, _level, _childnumber, _delete, _seen,
                   _iteritem, attr, warned, used, ops, outer, inner, prev,
                   reader, file>>

NextMerge ==
    \/ \E self \in Live, other \in Live : BeginMerge(self, other)
    \/ MergeRound
    \/ MergeEnd

\* A step that makes a round of the loop, by what it does to the index.
\* Every step of MergeRound is such a step, no step of another action of
\* NextMerge is, and one is possible exactly when MergeRound can be taken.
MergeGoesOn ==
    /\ last.op = "merge"
    /\ last.status = "running"
    /\ last.i < Len(_children[last.other])
    /\ Len(_children[last.self]) <= MaxNodes
    /\ last' \in {OpMerge(last.self, last.other, last.i + 1, last.n, status) :
                     status \in {"running", "raised"}}

\* The loop goes on as long as it can: a statement that can be executed is
\* executed.
SpecMerge == Init /\ [][NextMerge]_vars /\ WF_last(MergeGoesOn) /\ WF_vars(MergeEnd)

\* C38: a += b comes to its end for all trees a and b, also when b is a:
\* its loop makes no more rounds than b has children when it begins, and a
\* loop that runs is done at some time.
C38_MergeEnds ==
    /\ [](last.op = "merge" => last.i <= last.n)
    /\ (last.op = "merge" /\ last.status = "running")
         ~> (last.op = "merge" /\ last.status = "done")

====
